---- MODULE Spec2Model ----
(***************************************************************************)
(* A model of the extraction / classification / structuring core of the   *)
(* underwriting backend (src/backend/app).  Each component is modelled by *)
(* its own group of variables and its own specification; a specification  *)
(* leaves the variables of the other components at their idle values.     *)
(*                                                                         *)
(*   SpecT12Join   t12_utils.match_categories_with_amounts                 *)
(*   SpecChunker   om_extraction.utils.create_page_chunks                  *)
(*   SpecStructure StructureStage.process_structure and the two tasks      *)
(*   SpecOMClassify OMClassificationService.classify_pdf_pages             *)
(*   SpecBoundary  RRExtractStage.process_rr_extraction with the two-pass  *)
(*                 analyze_rent_roll_boundaries                            *)
(***************************************************************************)
EXTENDS Integers, Sequences, FiniteSets, TLC

VARIABLES
    \* ---- T12 join (t12_utils.py) ----
    line_items_and_amounts,     \* argument: list of [line_item, amount] arrays
    line_items_and_categories,  \* argument: list of [line_item, category] arrays
    final_categorized_items,    \* the returned list of triples
    t12_pc,                     \* "call" before the call, "returned" after
    \* ---- page chunker (om_extraction/utils.py) ----
    pages_text,                 \* argument: page number -> length of the page text
    chunk_size,                 \* argument: the character budget S
    page_idx,                   \* position of the for loop in sorted_pages
    chunks,                     \* the list being built / returned
    current_chunk_pages,
    current_chunk_size,
    chunk_pc,                   \* "loop" | "returned"
    \* ---- structure stage (structure_stage.py, structuring/service.py) ----
    rr_extraction,              \* input: a precision extraction is present
    t12_plain_text,             \* input: a T12 text is present
    rr_setup_raises,            \* environment: chunking / LLM set-up raises
    chunk_responses,            \* environment: what the LLM call of chunk i does
    t12_outcome,                \* environment: what process_t12_data does
    stage_pc,                   \* "start" | "gather" | "done"
    rr_task,                    \* "none" | "created" | "gathering" | "done"
    chunk_results,              \* per chunk task: pending, or its result
    completion_order,           \* chunk indices in the order the tasks finished
    rr_result,                  \* return value of structure_rent_roll_data
    t12_task,                   \* "none" | "created" | "done"
    t12_result,                 \* return value of structure_t12_data
    stage_output,               \* the StructureStageOutput
    \* ---- OM classification (om_classification/service.py) ----
    num_chunks,                 \* argument: number of chunks to classify
    om_responses,               \* environment: the LLM outcome per chunk so far
    classification_results,     \* the per-chunk result dicts
    schema_result,              \* the merged EnhancedClassificationResult
    om_pc,                      \* "loop" | "returned"
    \* ---- rent-roll boundary analysis (rent_roll_classification/service.py,
    \*      rr_extract_stage.py) ----
    rr_file_path,               \* input: a rent-roll file path is given
    download_ok,                \* environment: the download succeeds
    file_ext,                   \* input: "pdf" | "excel" | "other"
    text_blank,                 \* environment: the extracted text is blank
    detect_response,            \* environment: the pass-1 LLM outcome
    validate_response,          \* environment: the pass-2 LLM outcome
    llm_calls,                  \* the LLM calls made, in order
    analysis_pc,                \* "idle" | "start" | "pass2" | "returned"
    first_result,               \* the parsed pass-1 result
    classification_result,      \* what analyze_rent_roll_boundaries returns
    rr_stage_pc,                \* "start" | "classify" | "done"
    rr_stage_output,            \* the RRExtractStageOutput
    \* ---- spreadsheet precision extraction (rent_roll_extraction/service.py) ----
    has_target_sheet,           \* input: the classification's sheet is among the sheets
    sheet_data,                 \* input: the rows of the target sheet
    data_start_row,             \* input: classification.data_start_row
    data_end_row,               \* input: classification.data_end_row
    relevant_data,              \* the rows kept
    excel_pc,                   \* "idle" | "start" | "returned" | "raised"
    \* ---- PDF precision extraction (rent_roll_extraction/service.py) ----
    page_data,                  \* input: the text of each page, page_number = position
    data_start_page,            \* input: classification.data_start_page
    data_end_page,              \* input: classification.data_end_page
    has_start_marker,           \* input: data_start_marker is given
    has_end_marker,             \* input: data_end_marker is given
    pdf_relevant_data,          \* the lines kept, page by page
    pdf_pc,                     \* "idle" | "start" | "returned"
    \* ---- Excel write step (excel_generation/utils.py) ----
    template,                   \* input: the worksheet as loaded from the template
    write_data,                 \* input: the records to write
    mapping_config,             \* input: the tabular mapping (columns, data_start_row)
    property_data,              \* input: the property information
    property_mapping,           \* input: the single-cell mapping
    worksheet,                  \* the worksheet being written
    write_pc,                   \* "idle" | "start" | "data_written" | "done"
    \* ---- T12 multi-step flow (t12_repo.py, service.structure_t12_data) ----
    t12_text_blank,             \* input: the T12 text is empty or blank
    validation_response,        \* environment: the outcome of the validate call
    extraction_response,        \* environment: the outcome of the extract call
    labeling_response,          \* environment: the outcome of the categorize call
    t12_llm_calls,              \* the LLM calls made, in order
    join_done,                  \* match_categories_with_amounts has run
    process_result,             \* (success, structured_data, error_message)
    structured_t12_items,       \* what structure_t12_data returns
    process_pc,                 \* "idle" | "start" | "validate" | "extract" | "label" | "join" | "processed" | "done"
    \* ---- rent-roll row conversion (structuring/utils.py) ----
    row_arrays,                 \* input: the row arrays of an LLM response
    converted_units,            \* the units returned
    convert_pc,                 \* "idle" | "start" | "returned" | "raised"
    \* ---- job pipeline (api/v1/upload.py, _pipeline/extract_and_structure_orchestrator.py) ----
    has_om,                     \* input: the deal has an OM pdf upload file
    has_rr,                     \* input: the deal has a rent roll upload file
    has_t12,                    \* input: the deal has a T12 upload file
    db_faults,                  \* input: the kinds of database call that may fail in this run
    job_status,                 \* jobs.status of the job
    deal_status,                \* deals.status of the deal
    job_pc,                     \* position of the background task
    raised_at,                  \* "none" or the step at which the pipeline raised
    stages_run,                 \* the stages process_* was called for
    om_llm,                     \* outcomes of classification and of the two description calls
    om_output,                  \* ClassificationStageOutput as seen by the orchestrator
    rr_extraction_result,       \* rr_output.rr_extraction is not None
    t12_extraction_result,      \* t12_output.t12_extraction is not None
    \* ---- rent-roll re-chunking of a PDF precision extract (structuring/rr_repo.py) ----
    rr_relevant_data,           \* input: len(page_text) of each page of relevant_data
    rr_start_page,              \* input: boundaries[start_page]
    rr_chunk_size,              \* input: chunk_size
    rr_header_len,              \* input: len(header_context)
    rr_chunks,                  \* the chunks returned
    rr_chunk_pc,                \* "idle" | "start" | "returned"
    \* ---- pass-2 boundary context of a PDF (rent_roll_classification/utils.py) ----
    ctx_page_lens,              \* input: len(page text) of each page of the PDF
    ctx_first_result,           \* input: data_start_page and data_end_page of pass 1
    boundary_context,           \* the slices text[from:to] returned as start_context and end_context
    ctx_pc,                     \* "idle" | "start" | "returned"
    \* ---- Stripe webhook deliveries (billing/stripe_webhook_orchestrator.py, stripe_webhook_events_repo.py) ----
    wh_single_loop,             \* input: all deliveries are handled by one event loop
    wh_event,                   \* input: the Stripe event id of each delivery
    wh_pc,                      \* position of each delivery in process_webhook_event
    wh_record_id,               \* webhook_event.id as returned by _log_webhook_event
    wh_handler_outcome,         \* whether the routed handler returned or raised
    wh_result,                  \* status of the dict process_webhook_event returned
    webhook_events,             \* the stripe_webhook_events table, by stripe_event_id
    handler_runs                \* how often a handler was called for each Stripe event id

t12vars   == <<line_items_and_amounts, line_items_and_categories,
               final_categorized_items, t12_pc>>
chunkvars == <<pages_text, chunk_size, page_idx, chunks,
               current_chunk_pages, current_chunk_size, chunk_pc>>
stagevars == <<rr_extraction, t12_plain_text, rr_setup_raises, chunk_responses,
               t12_outcome, stage_pc, rr_task, chunk_results, completion_order,
               rr_result, t12_task, t12_result, stage_output>>
omvars    == <<num_chunks, om_responses, classification_results,
               schema_result, om_pc>>
boundvars == <<rr_file_path, download_ok, file_ext, text_blank,
               detect_response, validate_response, llm_calls, analysis_pc,
               first_result, classification_result, rr_stage_pc,
               rr_stage_output>>
excelvars == <<has_target_sheet, sheet_data, data_start_row, data_end_row, relevant_data, excel_pc>>
pdfvars == <<page_data, data_start_page, data_end_page, has_start_marker, has_end_marker, pdf_relevant_data, pdf_pc>>
writevars == <<template, write_data, mapping_config, property_data, property_mapping, worksheet, write_pc>>
procvars == <<t12_text_blank, validation_response, extraction_response, labeling_response, t12_llm_calls, join_done, process_result, structured_t12_items, process_pc>>
convvars == <<row_arrays, converted_units, convert_pc>>
jobvars == <<has_om, has_rr, has_t12, db_faults, job_status, deal_status, job_pc, raised_at, stages_run, om_llm, om_output, rr_extraction_result, t12_extraction_result>>
rrchunkvars == <<rr_relevant_data, rr_start_page, rr_chunk_size, rr_header_len, rr_chunks, rr_chunk_pc>>
ctxvars == <<ctx_page_lens, ctx_first_result, boundary_context, ctx_pc>>
whvars == <<wh_single_loop, wh_event, wh_pc, wh_record_id, wh_handler_outcome, wh_result, webhook_events, handler_runs>>
vars      == <<t12vars, chunkvars, stagevars, omvars, boundvars,
               excelvars,
               pdfvars,
               writevars,
               procvars,
               convvars,
               jobvars,
               rrchunkvars,
               ctxvars,
               whvars>>

\* What the actions of one component leave alone.
not_t12vars   == <<chunkvars, stagevars, omvars, boundvars,
                  excelvars,
                  pdfvars,
                  writevars,
                  procvars,
                  convvars,
                  jobvars,
                  rrchunkvars,
                  ctxvars,
                  whvars>>
not_chunkvars == <<t12vars, stagevars, omvars, boundvars,
                  excelvars,
                  pdfvars,
                  writevars,
                  procvars,
                  convvars,
                  jobvars,
                  rrchunkvars,
                  ctxvars,
                  whvars>>
not_stagevars == <<t12vars, chunkvars, omvars, boundvars,
                  excelvars,
                  pdfvars,
                  writevars,
                  procvars,
                  convvars,
                  jobvars,
                  rrchunkvars,
                  ctxvars,
                  whvars>>
not_omvars    == <<t12vars, chunkvars, stagevars, boundvars,
                  excelvars,
                  pdfvars,
                  writevars,
                  procvars,
                  convvars,
                  jobvars,
                  rrchunkvars,
                  ctxvars,
                  whvars>>
not_boundvars == <<t12vars, chunkvars, stagevars, omvars,
                  excelvars,
                  pdfvars,
                  writevars,
                  procvars,
                  convvars,
                  jobvars,
                  rrchunkvars,
                  ctxvars,
                  whvars>>
not_excelvars == <<t12vars, chunkvars, stagevars, omvars, boundvars,
                  pdfvars,
                  writevars,
                  procvars,
                  convvars,
                  jobvars,
                  rrchunkvars,
                  ctxvars,
                  whvars>>
not_pdfvars == <<t12vars, chunkvars, stagevars, omvars, boundvars, excelvars,
                  writevars,
                  procvars,
                  convvars,
                  jobvars,
                  rrchunkvars,
                  ctxvars,
                  whvars>>
not_writevars == <<t12vars, chunkvars, stagevars, omvars, boundvars, excelvars, pdfvars,
                  procvars,
                  convvars,
                  jobvars,
                  rrchunkvars,
                  ctxvars,
                  whvars>>
not_procvars == <<t12vars, chunkvars, stagevars, omvars, boundvars, excelvars, pdfvars, writevars,
                  convvars,
                  jobvars,
                  rrchunkvars,
                  ctxvars,
                  whvars>>
not_convvars == <<t12vars, chunkvars, stagevars, omvars, boundvars, excelvars, pdfvars, writevars, procvars,
                  jobvars,
                  rrchunkvars,
                  ctxvars,
                  whvars>>
not_jobvars == <<t12vars, chunkvars, stagevars, omvars, boundvars, excelvars, pdfvars, writevars, procvars, convvars,
                  rrchunkvars,
                  ctxvars,
                  whvars>>
not_rrchunkvars == <<t12vars, chunkvars, stagevars, omvars, boundvars, excelvars, pdfvars, writevars, procvars, convvars, jobvars,
                  ctxvars,
                  whvars>>
not_ctxvars == <<t12vars, chunkvars, stagevars, omvars, boundvars, excelvars, pdfvars, writevars, procvars, convvars, jobvars, rrchunkvars,
                  whvars>>
not_whvars == <<t12vars, chunkvars, stagevars, omvars, boundvars, excelvars, pdfvars, writevars, procvars, convvars, jobvars, rrchunkvars, ctxvars>>

(***************************************************************************)
(* Generic helpers                                                         *)
(***************************************************************************)
\* All sequences over S of length 0..n
SeqsUpTo(S, n) == UNION {[1..k -> S] : k \in 0..n}

\* Python sorted() of a finite set of integers
RECURSIVE SortedSeq(_)
SortedSeq(S) ==
    IF S = {} THEN <<>>
    ELSE LET m == CHOOSE x \in S : \A y \in S : x <= y
         IN  <<m>> \o SortedSeq(S \ {m})

\* list.extend over a list of lists
RECURSIVE Flatten(_)
Flatten(ss) == IF ss = <<>> THEN <<>> ELSE Head(ss) \o Flatten(Tail(ss))

Range(s) == {s[i] : i \in DOMAIN s}

(***************************************************************************)
(* T12 join: match_categories_with_amounts                                 *)
(***************************************************************************)
MaxItems == 2
MaxCats  == 2

LineItems     == {"Base Rent", "Misc"}
AmountValues  == {50000, 200}
ExtraLabels   == {"Extra"}
CategoryNames == {"Residential Rent", "Other Income"}

\* What the extraction step can hand over: well-formed pairs, and arrays that
\* are too short to be a pair.
ExtractedItems == (LineItems \X AmountValues) \cup {<<li>> : li \in LineItems}
\* What the categorization step can hand over: pairs for known labels, pairs
\* for labels that were never extracted, and arrays that are too short.
CategorizedItems == ((LineItems \cup ExtraLabels) \X CategoryNames)
                        \cup {<<li>> : li \in LineItems}

\* category_lookup = {}; for item in line_items_and_categories: ...
RECURSIVE category_lookup(_, _, _)
category_lookup(cats, i, lookup) ==
    IF i > Len(cats) THEN lookup
    ELSE LET item == cats[i] IN
         IF Len(item) >= 2
         THEN category_lookup(cats, i + 1,
                  [k \in (DOMAIN lookup) \cup {item[1]} |->
                       IF k = item[1] THEN item[2] ELSE lookup[k]])
         ELSE category_lookup(cats, i + 1, lookup)

\* dict.get(line_item, "Unknown")
lookup_get(lookup, key, default) ==
    IF key \in DOMAIN lookup THEN lookup[key] ELSE default

\* Mutant: an item without a category is skipped instead of defaulted.
RECURSIVE match_loop_drop_unmatched(_, _, _, _)
match_loop_drop_unmatched(amts, lookup, i, result) ==
    IF i > Len(amts) THEN result
    ELSE LET item == amts[i] IN
         IF Len(item) >= 2 /\ item[1] \in DOMAIN lookup
         THEN match_loop_drop_unmatched(amts, lookup, i + 1,
                  Append(result, <<item[1], item[2], lookup[item[1]]>>))
         ELSE match_loop_drop_unmatched(amts, lookup, i + 1, result)

\* result = []; for item in line_items_and_amounts: ...
RECURSIVE match_loop(_, _, _, _)
match_loop(amts, lookup, i, result) ==
    IF i > Len(amts) THEN result
    ELSE LET item == amts[i] IN
         IF Len(item) >= 2
         THEN match_loop(amts, lookup, i + 1,
                  Append(result, <<item[1], item[2],
                                   lookup_get(lookup, item[1], "Unknown")>>))
         ELSE match_loop(amts, lookup, i + 1, result)

match_categories_with_amounts(amts, cats) ==
    match_loop(amts, category_lookup(cats, 1, <<>>), 1, <<>>)

T12Idle ==
    /\ line_items_and_amounts = <<>>
    /\ line_items_and_categories = <<>>
    /\ final_categorized_items = <<>>
    /\ t12_pc = "idle"

T12JoinInit ==
    /\ line_items_and_amounts \in SeqsUpTo(ExtractedItems, MaxItems)
    /\ line_items_and_categories \in SeqsUpTo(CategorizedItems, MaxCats)
    /\ final_categorized_items = <<>>
    /\ t12_pc = "call"

MatchCategoriesWithAmounts ==
    /\ t12_pc = "call"
    /\ final_categorized_items' =
           match_categories_with_amounts(line_items_and_amounts,
                                         line_items_and_categories)
    /\ t12_pc' = "returned"
    /\ UNCHANGED <<line_items_and_amounts, line_items_and_categories>>
    /\ UNCHANGED not_t12vars

(***************************************************************************)
(* Page chunker: create_page_chunks                                        *)
(***************************************************************************)
MaxPage == 3

\* Page numbers of the map: small one-digit numbers and a two-digit one.
PageNumbers == (1..MaxPage) \cup {10}
\* len(page_text) of a page
TextLens == {0, 5, 40}
\* chunk_size values tried
Budgets == {1, 20, 25, 50}

\* len(str(page_num))
Digits(n) == IF n < 10 THEN 1 ELSE IF n < 100 THEN 2 ELSE 3

\* len(f"\n\n--- PAGE {page_num} ---\n\n{page_text}")
page_content_size(page_num, text_len) == 11 + Digits(page_num) + 6 + text_len

\* sorted(pages_text.items()), as the list of page numbers
sorted_pages(pt) == SortedSeq(DOMAIN pt)

\* "if current_chunk_pages and (current_chunk_size + page_content_size) > chunk_size"
would_exceed(cur_pages, cur_size, size, S) ==
    cur_pages # <<>> /\ (cur_size + size) > S

\* Mutant: the page that closes a chunk is not carried into the next one.
start_new_chunk_lose_page(page_num) == <<>>

\* "current_chunk_pages = [page_num]"
start_new_chunk(page_num) == <<page_num>>

\* Mutant: the special handling of a single oversized page is missing.
is_oversized_never(size, S, cur_pages) == FALSE

\* "if page_content_size > chunk_size and len(current_chunk_pages) == 1"
is_oversized(size, S, cur_pages) == size > S /\ Len(cur_pages) = 1

\* The dict appended to chunks ("oversized" is present only when True).
make_chunk(pgs, id, size, over) ==
    [pages |-> pgs, chunk_id |-> id, char_count |-> size, oversized |-> over]

ChunkIdle ==
    /\ pages_text = <<>>
    /\ chunk_size = 0
    /\ page_idx = 0
    /\ chunks = <<>>
    /\ current_chunk_pages = <<>>
    /\ current_chunk_size = 0
    /\ chunk_pc = "idle"

ChunkerInit ==
    /\ pages_text \in UNION {[P -> TextLens] : P \in SUBSET PageNumbers}
    /\ chunk_size \in Budgets
    /\ page_idx = 0
    /\ chunks = <<>>
    /\ current_chunk_pages = <<>>
    /\ current_chunk_size = 0
    /\ chunk_pc = "loop"

\* One iteration of "for page_num, page_text in sorted_pages".
ChunkPage ==
    /\ chunk_pc = "loop"
    /\ page_idx < Len(sorted_pages(pages_text))
    /\ LET page_num == sorted_pages(pages_text)[page_idx + 1]
           size     == page_content_size(page_num, pages_text[page_num])
           close    == would_exceed(current_chunk_pages, current_chunk_size,
                                    size, chunk_size)
           \* after the first if/else
           chunks1  == IF close
                       THEN Append(chunks, make_chunk(current_chunk_pages,
                                       Len(chunks), current_chunk_size, FALSE))
                       ELSE chunks
           pages1   == IF close THEN start_new_chunk(page_num)
                       ELSE Append(current_chunk_pages, page_num)
           size1    == IF close THEN size ELSE current_chunk_size + size
           over     == is_oversized(size, chunk_size, pages1)
       IN  /\ chunks' = IF over
                        THEN Append(chunks1,
                                 make_chunk(pages1, Len(chunks1), size1, TRUE))
                        ELSE chunks1
           /\ current_chunk_pages' = IF over THEN <<>> ELSE pages1
           /\ current_chunk_size'  = IF over THEN 0 ELSE size1
    /\ page_idx' = page_idx + 1
    /\ UNCHANGED <<pages_text, chunk_size, chunk_pc>>
    /\ UNCHANGED not_chunkvars

\* After the loop: "if current_chunk_pages: chunks.append(...)"; return chunks.
ChunkReturn ==
    /\ chunk_pc = "loop"
    /\ page_idx = Len(sorted_pages(pages_text))
    /\ chunks' = IF current_chunk_pages # <<>>
                 THEN Append(chunks, make_chunk(current_chunk_pages,
                                 Len(chunks), current_chunk_size, FALSE))
                 ELSE chunks
    /\ chunk_pc' = "returned"
    /\ UNCHANGED <<pages_text, chunk_size, page_idx,
                   current_chunk_pages, current_chunk_size>>
    /\ UNCHANGED not_chunkvars

(***************************************************************************)
(* Structure stage: StructureStage.process_structure, with the rent-roll   *)
(* task (structure_rent_roll_data, one process_chunk task per chunk) and   *)
(* the T12 task (structure_t12_data) running concurrently.                 *)
(***************************************************************************)
MaxChunks == 3

\* Python None, and an Optional value
PyNone == "None"
NONE == [is_none |-> TRUE, value |-> <<>>]
Some(v) == [is_none |-> FALSE, value |-> v]

\* Row arrays an LLM response can hold: 3, 4 and 6 positions.
Row101Short == <<"101", "1BR", "Occupied">>
Row101      == <<"101", "1BR", "", "750">>
Row102      == <<"102", "2BR", "Vacant", "900.0", "n/a", "2025-01-31">>

\* What the LLM call of one chunk can do.
ChunkResponses ==
    {[kind |-> "llm_raises", data |-> <<>>],
     [kind |-> "no_json",    data |-> <<>>],
     [kind |-> "object",     data |-> <<>>],
     [kind |-> "rows",       data |-> <<Row101>>],
     [kind |-> "rows",       data |-> <<Row102>>],
     [kind |-> "rows",       data |-> <<Row101Short, Row102>>]}

\* What process_t12_data can do.
T12Outcomes == {"ok", "rejected", "raises"}

\* The triples process_t12_data returns when it succeeds.
T12Triples == <<<<"Base Rent", 50000, "Residential Rent">>,
                <<"Misc", 200, "Unknown">>>>

\* int(float(x)) for the field strings of the rows; -1 stands for ValueError
int_float(x) ==
    CASE x = "750"   -> 750
      [] x = "900.0" -> 900
      [] OTHER       -> -1

\* float(x) is infinite, so that int(float(x)) raises OverflowError
is_infinite(x) == x = "inf"

\* "x if x is not None and x != '' else default" (str(x).strip() on the
\* field strings used here is the identity)
field_or(row, i, default) ==
    IF row[i] # PyNone /\ row[i] # "" THEN row[i] ELSE default

\* the numeric fields: 0 when missing, empty or not a number
int_field(row, i) ==
    IF Len(row) >= i /\ row[i] # PyNone /\ row[i] # ""
    THEN (IF int_float(row[i]) = -1 THEN 0 ELSE int_float(row[i]))
    ELSE 0

unit_object(row) ==
    [unit             |-> field_or(row, 1, ""),
     unit_type        |-> field_or(row, 2, ""),
     status           |-> field_or(row, 3, "Occupied"),
     unit_size        |-> int_field(row, 4),
     rent             |-> int_field(row, 5),
     lease_expiration |-> IF Len(row) > 5 /\ row[6] # PyNone /\ row[6] # ""
                          THEN row[6] ELSE PyNone]

RECURSIVE convert_rent_roll_arrays_to_objects(_)
convert_rent_roll_arrays_to_objects(array_data) ==
    IF array_data = <<>> THEN <<>>
    ELSE LET row  == Head(array_data)
             rest == convert_rent_roll_arrays_to_objects(Tail(array_data))
         IN  IF Len(row) < 4 THEN rest ELSE <<unit_object(row)>> \o rest

\* The OverflowError of int(float(x)) is caught neither by the inner except
\* (ValueError, TypeError) nor by the outer one (ValueError, TypeError,
\* IndexError): a row of 4 or more positions with an infinite size or rent
\* makes convert_rent_roll_arrays_to_objects raise.
row_raises(row) ==
    /\ Len(row) >= 4
    /\ \/ is_infinite(row[4])
       \/ Len(row) > 4 /\ is_infinite(row[5])

convert_raises(array_data) == \E k \in DOMAIN array_data : row_raises(array_data[k])

\* structure_text_with_llm: None when the call raises or nothing parses
structure_text_with_llm(resp) ==
    IF resp.kind \in {"llm_raises", "no_json"} THEN NONE ELSE Some(resp)

\* validate_rent_roll_data: [] for a non-list, the converted rows otherwise
validate_rent_roll_data(parsed) ==
    IF parsed.kind # "rows" THEN <<>>
    ELSE convert_rent_roll_arrays_to_objects(parsed.data)

\* process_chunk: the list of units of one chunk, [] on any failure
process_chunk(resp) ==
    LET raw_result == structure_text_with_llm(resp)
    IN  IF raw_result.is_none THEN <<>>
        ELSE IF raw_result.value.kind = "rows" /\ convert_raises(raw_result.value.data)
        THEN <<>>
        ELSE validate_rent_roll_data(raw_result.value)

\* A task result as asyncio.gather(return_exceptions=True) reports it.
Returned(v) == [exc |-> FALSE, value |-> v]
Pending     == [done |-> FALSE, result |-> Returned(<<>>)]
Done(r)     == [done |-> TRUE,  result |-> r]

\* Mutant: results are taken in the order the tasks completed.
gather_as_completed(results, order) ==
    [k \in DOMAIN order |-> results[order[k]].result]

\* asyncio.gather: the results in the order of the awaitables
gather(results, order) == [k \in DOMAIN results |-> results[k].result]

\* Mutant: one chunk without units discards the units of all chunks.
combine_all_or_nothing(results) ==
    IF \E k \in DOMAIN results : results[k].exc \/ results[k].value = <<>>
    THEN <<>>
    ELSE Flatten([k \in DOMAIN results |-> results[k].value])

\* "for i, result in enumerate(chunk_results): ... all_results.extend(result)"
RECURSIVE combine_chunk_results(_)
combine_chunk_results(results) ==
    IF results = <<>> THEN <<>>
    ELSE LET result == Head(results)
         IN  (IF result.exc THEN <<>> ELSE result.value)
                 \o combine_chunk_results(Tail(results))

\* t12_utils.convert_to_objects
convert_to_objects(categorized_items) ==
    [k \in DOMAIN categorized_items |->
        [line_item |-> categorized_items[k][1],
         total     |-> categorized_items[k][2],
         category  |-> categorized_items[k][3]]]

\* structure_t12_data: [] when process_t12_data reports failure or raises
structure_t12_data(outcome) ==
    IF outcome = "ok" THEN convert_to_objects(T12Triples) ELSE <<>>

\* error_utils.determine_stage_success
determine_stage_success(errors) == Len(errors) = 0

\* The tasks list of process_structure: ("RR", rr_task), ("T12", t12_task)
stage_tasks(rr, t12) ==
    (IF rr THEN <<"RR">> ELSE <<>>) \o (IF t12 THEN <<"T12">> ELSE <<>>)

\* Lines 83-101 of process_structure: the errors, in task order
RECURSIVE collect_errors(_, _)
collect_errors(tasks, results) ==
    IF tasks = <<>> THEN <<>>
    ELSE (IF Head(results).exc THEN <<Head(tasks)>> ELSE <<>>)
             \o collect_errors(Tail(tasks), Tail(results))

\* Lines 83-101 of process_structure: the value kept for one task name
result_for(name, tasks, results) ==
    IF \E k \in DOMAIN tasks : tasks[k] = name /\ ~results[k].exc
    THEN Some(results[CHOOSE k \in DOMAIN tasks : tasks[k] = name].value)
    ELSE NONE

NoOutput == [structured_rent_roll |-> NONE, structured_t12 |-> NONE,
             structure_success |-> FALSE, errors |-> <<>>]

StageIdle ==
    /\ rr_extraction = FALSE
    /\ t12_plain_text = FALSE
    /\ rr_setup_raises = FALSE
    /\ chunk_responses = <<>>
    /\ t12_outcome = "ok"
    /\ stage_pc = "idle"
    /\ rr_task = "none"
    /\ chunk_results = <<>>
    /\ completion_order = <<>>
    /\ rr_result = <<>>
    /\ t12_task = "none"
    /\ t12_result = <<>>
    /\ stage_output = NoOutput

StageInit ==
    /\ rr_extraction \in BOOLEAN
    /\ t12_plain_text \in BOOLEAN
    /\ rr_setup_raises \in BOOLEAN
    /\ chunk_responses \in SeqsUpTo(ChunkResponses, MaxChunks)
    /\ t12_outcome \in T12Outcomes
    \* without a rent roll / a T12 the environment of its task plays no part
    /\ ~rr_extraction => (rr_setup_raises = FALSE /\ chunk_responses = <<>>)
    /\ ~t12_plain_text => t12_outcome = "ok"
    /\ stage_pc = "start"
    /\ rr_task = "none"
    /\ chunk_results = <<>>
    /\ completion_order = <<>>
    /\ rr_result = <<>>
    /\ t12_task = "none"
    /\ t12_result = <<>>
    /\ stage_output = NoOutput

\* process_structure up to "await asyncio.gather(...)": create the tasks.
CreateTasks ==
    /\ stage_pc = "start"
    /\ rr_task' = IF rr_extraction THEN "created" ELSE "none"
    /\ t12_task' = IF t12_plain_text THEN "created" ELSE "none"
    /\ stage_pc' = "gather"
    /\ UNCHANGED <<rr_extraction, t12_plain_text, rr_setup_raises,
                   chunk_responses, t12_outcome, chunk_results,
                   completion_order, rr_result, t12_result, stage_output>>
    /\ UNCHANGED not_stagevars

\* structure_rent_roll_data up to its own gather: chunk, validate, create
\* one process_chunk task per chunk.  An exception on the way, and an empty
\* chunk list, both end the task with [].
RRStructureStart ==
    /\ rr_task = "created"
    /\ IF rr_setup_raises \/ chunk_responses = <<>>
       THEN /\ rr_task' = "done"
            /\ rr_result' = <<>>
            /\ UNCHANGED chunk_results
       ELSE /\ rr_task' = "gathering"
            /\ chunk_results' = [k \in DOMAIN chunk_responses |-> Pending]
            /\ UNCHANGED rr_result
    /\ UNCHANGED <<rr_extraction, t12_plain_text, rr_setup_raises,
                   chunk_responses, t12_outcome, stage_pc, completion_order,
                   t12_task, t12_result, stage_output>>
    /\ UNCHANGED not_stagevars

\* The process_chunk task of chunk i finishes (in any order).
ProcessChunk(i) ==
    /\ rr_task = "gathering"
    /\ i \in DOMAIN chunk_results
    /\ ~chunk_results[i].done
    /\ chunk_results' = [chunk_results EXCEPT
           ![i] = Done(Returned(process_chunk(chunk_responses[i])))]
    /\ completion_order' = Append(completion_order, i)
    /\ UNCHANGED <<rr_extraction, t12_plain_text, rr_setup_raises,
                   chunk_responses, t12_outcome, stage_pc, rr_task, rr_result,
                   t12_task, t12_result, stage_output>>
    /\ UNCHANGED not_stagevars

\* All chunk tasks are done: gather returns, the results are combined and
\* structure_rent_roll_data returns.
RRCombine ==
    /\ rr_task = "gathering"
    /\ \A k \in DOMAIN chunk_results : chunk_results[k].done
    /\ rr_result' = combine_chunk_results(gather(chunk_results, completion_order))
    /\ rr_task' = "done"
    /\ UNCHANGED <<rr_extraction, t12_plain_text, rr_setup_raises,
                   chunk_responses, t12_outcome, stage_pc, chunk_results,
                   completion_order, t12_task, t12_result, stage_output>>
    /\ UNCHANGED not_stagevars

\* The T12 task runs structure_t12_data to its end.
T12Structure ==
    /\ t12_task = "created"
    /\ t12_result' = structure_t12_data(t12_outcome)
    /\ t12_task' = "done"
    /\ UNCHANGED <<rr_extraction, t12_plain_text, rr_setup_raises,
                   chunk_responses, t12_outcome, stage_pc, rr_task,
                   chunk_results, completion_order, rr_result, stage_output>>
    /\ UNCHANGED not_stagevars

\* The stage's gather returns once every created task is done; the results
\* are processed and the StructureStageOutput is built.
StageCollect ==
    /\ stage_pc = "gather"
    /\ rr_task \in {"none", "done"}
    /\ t12_task \in {"none", "done"}
    /\ LET tasks   == stage_tasks(rr_task = "done", t12_task = "done")
           results == (IF rr_task = "done" THEN <<Returned(rr_result)>> ELSE <<>>)
                      \o (IF t12_task = "done" THEN <<Returned(t12_result)>> ELSE <<>>)
           errors  == collect_errors(tasks, results)
       IN  stage_output' =
               [structured_rent_roll |-> result_for("RR", tasks, results),
                structured_t12       |-> result_for("T12", tasks, results),
                structure_success    |-> determine_stage_success(errors),
                errors               |-> errors]
    /\ stage_pc' = "done"
    /\ UNCHANGED <<rr_extraction, t12_plain_text, rr_setup_raises,
                   chunk_responses, t12_outcome, rr_task, chunk_results,
                   completion_order, rr_result, t12_task, t12_result>>
    /\ UNCHANGED not_stagevars

(***************************************************************************)
(* OM classification: classify_pdf_pages, parse_llm_response and           *)
(* EnhancedClassificationResult (from_dict, merge_results).                *)
(***************************************************************************)
MaxOMChunks == 3

\* EnhancedClassificationResult.get_property_info_fields()
PropertyInfoFields ==
    {"property_name", "address", "zip_code", "city", "state",
     "number_of_units", "year_built", "parking_spaces", "gross_square_feet",
     "asking_price"}

\* EnhancedClassificationResult.get_page_list_fields()
PageListFields == {"t12", "rent_roll", "executive_summary", "market_overview"}

\* An Optional[ExtractedPropertyInfo]
PropNone == [is_none |-> TRUE, value |-> "", first_page |-> 0]
Prop(v, fp) == [is_none |-> FALSE, value |-> v, first_page |-> fp]

\* The value of a property key in the LLM's JSON: missing or null, a
\* {value, first_page} object, something that is not such an object, or an
\* object whose first_page is not a number.
RawNull == [shape |-> "null", value |-> "", first_page |-> 0]
RawProp(v, fp) == [shape |-> "dict", value |-> v, first_page |-> fp]
RawString(v) == [shape |-> "not_dict", value |-> v, first_page |-> 0]
RawBadPage(v) == [shape |-> "bad_page", value |-> v, first_page |-> 0]

\* The scalar part of a JSON response: the keys given, the others missing.
Scalars0 == [f \in PropertyInfoFields |-> RawNull]
Scalars1 == [Scalars0 EXCEPT !["property_name"] = RawProp("X", 1)]
Scalars2 == [Scalars0 EXCEPT !["property_name"] = RawProp("Y", 2),
                             !["address"] = RawProp("1 Main St", 2),
                             !["city"] = RawString("Springfield")]
ScalarsBad == [Scalars0 EXCEPT !["property_name"] = RawProp("Z", 1),
                               !["year_built"] = RawBadPage("1990")]

\* The page-list part of a JSON response (unsorted, repeated and
\* non-positive page numbers included).
Lists0 == [f \in PageListFields |-> <<>>]
Lists1 == [Lists0 EXCEPT !["t12"] = <<2, 1>>,
                         !["executive_summary"] = <<5>>]
Lists2 == [Lists0 EXCEPT !["t12"] = <<3, 2, 3>>,
                         !["rent_roll"] = <<1, 0>>,
                         !["market_overview"] = <<5, 4>>]

\* What the LLM call of one chunk can do.
RawResponses ==
    {[kind |-> "json", props |-> p, lists |-> l] :
        p \in {Scalars0, Scalars1, Scalars2}, l \in {Lists0, Lists1, Lists2}}
    \cup {[kind |-> "json", props |-> ScalarsBad, lists |-> Lists1]}
    \cup {[kind |-> k, props |-> Scalars0, lists |-> Lists0] :
              k \in {"llm_raises", "no_json", "bad_json"}}

\* EnhancedClassificationResult.create_empty_result()
create_empty_result ==
    [props |-> [f \in PropertyInfoFields |-> PropNone],
     lists |-> [f \in PageListFields |-> <<>>]]

\* "clean_pages = [int(p) for p in pages if int(p) > 0]; sorted(list(set(clean_pages)))"
clean_pages(pages) == SortedSeq({x \in Range(pages) : x > 0})

\* parse_llm_response: the cleaned dict, or the empty result when nothing
\* parses (no JSON, invalid JSON, or int(first_page) raising ValueError)
parse_llm_response(resp) ==
    IF resp.kind \in {"no_json", "bad_json"} THEN create_empty_result
    ELSE IF \E f \in PropertyInfoFields : resp.props[f].shape = "bad_page"
    THEN create_empty_result
    ELSE [props |-> [f \in PropertyInfoFields |->
                        IF resp.props[f].shape = "dict"
                        THEN Prop(resp.props[f].value, resp.props[f].first_page)
                        ELSE PropNone],
          lists |-> [f \in PageListFields |-> clean_pages(resp.lists[f])]]

\* Mutant: an exception of the LLM call is not caught per chunk.
classify_chunk_failure_poisons(resp) ==
    IF resp.kind = "llm_raises"
    THEN [props |-> [f \in PropertyInfoFields |-> Prop("error", 0)],
          lists |-> [f \in PageListFields |-> <<>>]]
    ELSE parse_llm_response(resp)

\* _classify_chunk_with_llm: try: parse(await chain.arun(...)) except: empty
classify_chunk_with_llm(resp) ==
    IF resp.kind = "llm_raises" THEN create_empty_result
    ELSE parse_llm_response(resp)

\* EnhancedClassificationResult.from_dict on a result dict
from_dict(data) ==
    [props |-> [f \in PropertyInfoFields |-> data.props[f]],
     lists |-> [f \in PageListFields |-> clean_pages(data.lists[f])]]

\* Mutant: a later non-null value replaces an earlier one.
RECURSIVE merge_scalar_last_wins(_, _)
merge_scalar_last_wins(results, f) ==
    IF results = <<>> THEN PropNone
    ELSE LET last == results[Len(results)].props[f]
         IN  IF ~last.is_none THEN last
             ELSE merge_scalar_last_wins(SubSeq(results, 1, Len(results) - 1), f)

\* "for result in results: if field_value is not None and merged is None: ... break"
RECURSIVE merge_scalar(_, _)
merge_scalar(results, f) ==
    IF results = <<>> THEN PropNone
    ELSE LET field_value == Head(results).props[f]
         IN  IF ~field_value.is_none THEN field_value
             ELSE merge_scalar(Tail(results), f)

\* Mutant: the pages are concatenated without sorted(set(...)).
merge_pages_concat(results, f) ==
    Flatten([k \in DOMAIN results |-> results[k].lists[f]])

\* "all_pages.extend(field_value) ...; sorted(list(set(all_pages)))"
merge_pages(results, f) ==
    SortedSeq(Range(Flatten([k \in DOMAIN results |-> results[k].lists[f]])))

\* EnhancedClassificationResult.merge_results
merge_results(results) ==
    [props |-> [f \in PropertyInfoFields |-> merge_scalar(results, f)],
     lists |-> [f \in PageListFields |-> merge_pages(results, f)]]

\* Steps 3 and 4 of classify_pdf_pages
convert_and_merge(results) ==
    merge_results([k \in DOMAIN results |-> from_dict(results[k])])

OMIdle ==
    /\ num_chunks = 0
    /\ om_responses = <<>>
    /\ classification_results = <<>>
    /\ schema_result = create_empty_result
    /\ om_pc = "idle"

OMInit ==
    /\ num_chunks \in 0..MaxOMChunks
    /\ om_responses = <<>>
    /\ classification_results = <<>>
    /\ schema_result = create_empty_result
    /\ om_pc = "loop"

\* One iteration of "for i in range(num_chunks)": classify chunk i.
ClassifyChunk ==
    /\ om_pc = "loop"
    /\ Len(classification_results) < num_chunks
    /\ \E resp \in RawResponses :
           /\ om_responses' = Append(om_responses, resp)
           /\ classification_results' =
                  Append(classification_results, classify_chunk_with_llm(resp))
    /\ UNCHANGED <<num_chunks, schema_result, om_pc>>
    /\ UNCHANGED not_omvars

\* After the loop: convert every result dict to the model, merge, return.
MergeResults ==
    /\ om_pc = "loop"
    /\ Len(classification_results) = num_chunks
    /\ schema_result' = convert_and_merge(classification_results)
    /\ om_pc' = "returned"
    /\ UNCHANGED <<num_chunks, om_responses, classification_results>>
    /\ UNCHANGED not_omvars

(***************************************************************************)
(* Rent-roll boundary analysis: RRExtractStage.process_rr_extraction and   *)
(* RentRollClassificationService.analyze_rent_roll_boundaries (pass 1      *)
(* detect, pass 2 validate_boundaries).                                    *)
(*                                                                         *)
(* An LLM response is a sequence of tokens: "prose" (text without braces), *)
(* "{" and "}", "garbage" (text that is not JSON), and the member lists of *)
(* a JSON object: "P1" and "P2" (all boundary keys, two different          *)
(* boundaries), "Pmiss" (a required boundary key is missing) and "C" (the  *)
(* members of a nested corrections_made object).                           *)
(***************************************************************************)
PayloadTokens == {"P1", "P2", "Pmiss", "C"}

LLMTexts ==
    {<<"prose">>,
     <<"prose", "{", "P1", "}", "prose">>,
     <<"{", "P2", "}">>,
     <<"{", "garbage", "}">>,
     <<"{", "P1">>,
     <<"{", "P2", "{", "C", "}", "}">>,
     <<"{", "Pmiss", "}">>,
     <<"{", "}">>,
     <<"{", "garbage", "}", "{", "P1", "}">>}

\* What an LLM call can do: raise, or return one of the texts.
LLMOutcomes ==
    {[raises |-> TRUE, text |-> <<>>]}
        \cup {[raises |-> FALSE, text |-> t] : t \in LLMTexts}
NoOutcome == [raises |-> FALSE, text |-> <<>>]

\* A parsed JSON object: empty ({}), or with the boundaries it gives;
\* complete when every required boundary key of the pydantic model is there.
EmptyDict == [empty |-> TRUE,  complete |-> FALSE, start |-> 0, end |-> 0]
DictOf(tok) ==
    CASE tok = "P1"    -> [empty |-> FALSE, complete |-> TRUE,  start |-> 1, end |-> 2]
      [] tok = "P2"    -> [empty |-> FALSE, complete |-> TRUE,  start |-> 2, end |-> 3]
      [] tok = "Pmiss" -> [empty |-> FALSE, complete |-> FALSE, start |-> 1, end |-> 0]
      [] OTHER         -> EmptyDict

Positions(text, tok) == {i \in DOMAIN text : text[i] = tok}
Min(S) == CHOOSE x \in S : \A y \in S : x <= y
Max(S) == CHOOSE x \in S : \A y \in S : x >= y

NoMatch == <<>>

\* re.search(r'\{.*?\}', response, re.DOTALL): from the first "{" to the
\* first "}" after it
search_non_greedy(text) ==
    IF Positions(text, "{") = {} THEN NoMatch
    ELSE LET i == Min(Positions(text, "{"))
             closing == {j \in Positions(text, "}") : j > i}
         IN  IF closing = {} THEN NoMatch ELSE SubSeq(text, i, Min(closing))

\* re.search(r'\{.*\}', response, re.DOTALL): from the first "{" to the
\* last "}" after it
search_greedy(text) ==
    IF Positions(text, "{") = {} THEN NoMatch
    ELSE LET i == Min(Positions(text, "{"))
             closing == {j \in Positions(text, "}") : j > i}
         IN  IF closing = {} THEN NoMatch ELSE SubSeq(text, i, Max(closing))

\* The nesting depth after each token of a candidate JSON text.
RECURSIVE Depth(_, _)
Depth(toks, k) ==
    IF k = 0 THEN 0
    ELSE Depth(toks, k - 1)
             + (IF toks[k] = "{" THEN 1 ELSE IF toks[k] = "}" THEN -1 ELSE 0)

\* json.loads succeeds on an object text: one balanced object, nothing after
\* it, and nothing in it that is not JSON.
json_valid(toks) ==
    /\ Len(toks) >= 2
    /\ toks[1] = "{"
    /\ \A k \in 1..(Len(toks) - 1) : Depth(toks, k) >= 1
    /\ Depth(toks, Len(toks)) = 0
    /\ \A k \in DOMAIN toks : toks[k] \in PayloadTokens \cup {"{", "}"}

\* json.loads: the dict of the top-level members
json_loads(toks) ==
    LET top == {k \in DOMAIN toks :
                    toks[k] \in PayloadTokens /\ Depth(toks, k) = 1}
    IN  IF top = {} THEN EmptyDict ELSE DictOf(toks[Min(top)])

\* Mutant: when pass 1 yields no JSON the analysis goes on with default
\* boundaries instead of giving up.
parse_first_pass_with_default(outcome) ==
    IF outcome.raises THEN NONE
    ELSE LET json_str == search_non_greedy(outcome.text)
         IN  IF json_str = NoMatch \/ ~json_valid(json_str)
             THEN Some(DictOf("P1"))
             ELSE Some(json_loads(json_str))

\* Lines 173-187 of analyze_rent_roll_boundaries: the pass-1 call and parse;
\* NONE when the call raises, nothing matches or json.loads raises
parse_first_pass(outcome) ==
    IF outcome.raises THEN NONE
    ELSE LET json_str == search_non_greedy(outcome.text)
         IN  IF json_str = NoMatch THEN NONE
             ELSE IF ~json_valid(json_str) THEN NONE
             ELSE Some(json_loads(json_str))

\* validate_boundaries: the parsed pass-2 result; NONE when the call raises,
\* nothing matches or json.loads raises
validate_boundaries(outcome) ==
    IF outcome.raises THEN NONE
    ELSE LET json_str == search_greedy(outcome.text)
         IN  IF json_str = NoMatch THEN NONE
             ELSE IF ~json_valid(json_str) THEN NONE
             ELSE Some(json_loads(json_str))

\* Mutant: without a validated result the analysis gives up.
final_classification_needs_validation(first, validation_result) ==
    IF validation_result.is_none THEN NONE
    ELSE IF validation_result.value.complete
    THEN Some(validation_result.value) ELSE NONE

\* Lines 196-209: "if validation_result:" picks the final result, which the
\* pydantic model accepts only with its required keys (else except: None)
final_classification(first, validation_result) ==
    LET final_result ==
            IF ~validation_result.is_none /\ ~validation_result.value.empty
            THEN validation_result.value
            ELSE first
    IN  IF final_result.complete THEN Some(final_result) ELSE NONE

\* RRExtractStageOutput
rr_output(extraction, ftype, success, msg) ==
    [rr_extraction |-> extraction, file_type |-> ftype,
     extraction_success |-> success, error_message |-> msg]

NoRROutput == rr_output(FALSE, PyNone, FALSE, PyNone)

BoundaryIdle ==
    /\ rr_file_path = FALSE
    /\ download_ok = FALSE
    /\ file_ext = "pdf"
    /\ text_blank = FALSE
    /\ detect_response = NoOutcome
    /\ validate_response = NoOutcome
    /\ llm_calls = <<>>
    /\ analysis_pc = "idle"
    /\ first_result = EmptyDict
    /\ classification_result = NONE
    /\ rr_stage_pc = "idle"
    /\ rr_stage_output = NoRROutput

BoundaryInit ==
    /\ rr_file_path \in BOOLEAN
    /\ download_ok \in BOOLEAN
    /\ file_ext \in {"pdf", "excel", "other"}
    /\ text_blank \in BOOLEAN
    /\ detect_response = NoOutcome
    /\ validate_response = NoOutcome
    /\ llm_calls = <<>>
    /\ analysis_pc = "idle"
    /\ first_result = EmptyDict
    /\ classification_result = NONE
    /\ rr_stage_pc = "start"
    /\ rr_stage_output = NoRROutput

\* process_rr_extraction up to the call of analyze_rent_roll_boundaries:
\* the early returns, then download, file type, raw extraction, text.
RRStageBegin ==
    /\ rr_stage_pc = "start"
    /\ IF ~rr_file_path
       THEN /\ rr_stage_output' = rr_output(FALSE, PyNone, FALSE, "No RR file provided")
            /\ rr_stage_pc' = "done"
            /\ UNCHANGED analysis_pc
       ELSE IF ~download_ok
       THEN /\ rr_stage_output' = rr_output(FALSE, PyNone, FALSE, "Failed to download RR file")
            /\ rr_stage_pc' = "done"
            /\ UNCHANGED analysis_pc
       ELSE IF file_ext = "other"
       THEN /\ rr_stage_output' = rr_output(FALSE, PyNone, FALSE, "Unsupported file type")
            /\ rr_stage_pc' = "done"
            /\ UNCHANGED analysis_pc
       ELSE /\ rr_stage_pc' = "classify"
            /\ analysis_pc' = "start"
            /\ UNCHANGED rr_stage_output
    /\ UNCHANGED <<rr_file_path, download_ok, file_ext, text_blank,
                   detect_response, validate_response, llm_calls,
                   first_result, classification_result>>
    /\ UNCHANGED not_boundvars

\* analyze_rent_roll_boundaries, pass 1: blank text returns None without a
\* call; otherwise the detect call is made and its response parsed.
AnalyzePass1 ==
    /\ analysis_pc = "start"
    /\ IF text_blank
       THEN /\ classification_result' = NONE
            /\ analysis_pc' = "returned"
            /\ UNCHANGED <<detect_response, llm_calls, first_result>>
       ELSE \E outcome \in LLMOutcomes :
                LET parsed == parse_first_pass(outcome) IN
                /\ detect_response' = outcome
                /\ llm_calls' = Append(llm_calls, "detect")
                /\ IF parsed.is_none
                   THEN /\ classification_result' = NONE
                        /\ analysis_pc' = "returned"
                        /\ UNCHANGED first_result
                   ELSE /\ first_result' = parsed.value
                        /\ analysis_pc' = "pass2"
                        /\ UNCHANGED classification_result
    /\ UNCHANGED <<rr_file_path, download_ok, file_ext, text_blank,
                   validate_response, rr_stage_pc, rr_stage_output>>
    /\ UNCHANGED not_boundvars

\* analyze_rent_roll_boundaries, pass 2: the validate call, the choice of
\* the final result and its conversion to the classification model.
ValidatePass2 ==
    /\ analysis_pc = "pass2"
    /\ \E outcome \in LLMOutcomes :
           /\ validate_response' = outcome
           /\ llm_calls' = Append(llm_calls, "validate")
           /\ classification_result' =
                  final_classification(first_result, validate_boundaries(outcome))
    /\ analysis_pc' = "returned"
    /\ UNCHANGED <<rr_file_path, download_ok, file_ext, text_blank,
                   detect_response, first_result, rr_stage_pc, rr_stage_output>>
    /\ UNCHANGED not_boundvars

\* process_rr_extraction after the analysis: no classification is a failure
\* without extraction; otherwise the precision extraction is returned.
RRStageFinish ==
    /\ rr_stage_pc = "classify"
    /\ analysis_pc = "returned"
    /\ rr_stage_output' =
           IF classification_result.is_none
           THEN rr_output(FALSE, file_ext, FALSE,
                          "Classification failed - no boundaries detected")
           ELSE rr_output(TRUE, file_ext, TRUE, PyNone)
    /\ rr_stage_pc' = "done"
    /\ UNCHANGED <<rr_file_path, download_ok, file_ext, text_blank,
                   detect_response, validate_response, llm_calls, analysis_pc,
                   first_result, classification_result>>
    /\ UNCHANGED not_boundvars

(***************************************************************************)
(* Spreadsheet precision extraction:                                       *)
(* RentRollExtractionService._extract_excel_with_boundaries.               *)
(***************************************************************************)
MaxRows == 3

\* The data of the target sheet: rows named by their 1-based position.
SheetDatas == {[k \in 1..n |-> k] : n \in 0..MaxRows}

\* The integers a classification can carry as data_start_row, data_end_row.
BoundaryRowValues == (0 - MaxRows)..(MaxRows + 2)

\* A slice index as Python normalises it: negative counts from the end.
slice_index(i, n) ==
    IF i < 0 THEN (IF i + n < 0 THEN 0 ELSE i + n)
    ELSE (IF i > n THEN n ELSE i)

\* data[start:stop]
py_slice(data, start, stop) ==
    LET lo == slice_index(start, Len(data))
        hi == slice_index(stop, Len(data))
    IN  IF lo < hi THEN [k \in 1..(hi - lo) |-> data[lo + k]] ELSE <<>>

\* Lines 280-288: the 0-based start, the two clamps and the slice
extract_rows(data, start, end) ==
    LET start_row == IF start - 1 < 0 THEN 0 ELSE start - 1
        end_row   == IF end > Len(data) THEN Len(data) ELSE end
    IN  py_slice(data, start_row, end_row)

ExcelIdle ==
    /\ has_target_sheet = FALSE
    /\ sheet_data = <<>>
    /\ data_start_row = 0
    /\ data_end_row = 0
    /\ relevant_data = <<>>
    /\ excel_pc = "idle"

ExcelInit ==
    /\ has_target_sheet \in BOOLEAN
    /\ sheet_data \in SheetDatas
    /\ data_start_row \in BoundaryRowValues
    /\ data_end_row \in BoundaryRowValues
    /\ relevant_data = <<>>
    /\ excel_pc = "start"

\* _extract_excel_with_boundaries: ValueError without the target sheet,
\* otherwise the rows within the boundaries.
ExtractExcelWithBoundaries ==
    /\ excel_pc = "start"
    /\ IF ~has_target_sheet
       THEN /\ excel_pc' = "raised"
            /\ UNCHANGED relevant_data
       ELSE /\ relevant_data' = extract_rows(sheet_data, data_start_row, data_end_row)
            /\ excel_pc' = "returned"
    /\ UNCHANGED <<has_target_sheet, sheet_data, data_start_row, data_end_row>>
    /\ UNCHANGED not_excelvars

(***************************************************************************)
(* PDF precision extraction:                                               *)
(* RentRollExtractionService._extract_pdf_with_boundaries.                 *)
(*                                                                         *)
(* A page text is a sequence of tokens: "S" is an occurrence of the start  *)
(* marker string, "E" an occurrence of the end marker string, "\n" a line  *)
(* break, and "a", "b" other text.                                         *)
(***************************************************************************)
MaxPdfPages == 3

PageTexts ==
    {<<>>,
     <<"a", "\n", "b">>,
     <<"a", "\n", "S", "\n", "b">>,
     <<"a", "\n", "E", "\n", "b">>,
     <<"a", "S", "\n", "b", "E", "a">>,
     <<"E", "\n", "S">>}

PageBounds == 0..(MaxPdfPages + 1)

\* text.find(marker): the position of the first occurrence
find(text, marker) == Min(Positions(text, marker))

\* Lines 222-224: from the first occurrence of the start marker on
apply_start_marker(text, given) ==
    IF given /\ Positions(text, "S") # {}
    THEN SubSeq(text, find(text, "S"), Len(text))
    ELSE text

\* Lines 227-233: up to and including the first occurrence of the end marker
apply_end_marker(text, given) ==
    IF given /\ Positions(text, "E") # {}
    THEN SubSeq(text, 1, find(text, "E"))
    ELSE text

\* "[line.strip() for line in text.split('\n') if line.strip()]"
RECURSIVE split_lines(_, _)
split_lines(text, line) ==
    IF text = <<>> THEN (IF line = <<>> THEN <<>> ELSE <<line>>)
    ELSE IF Head(text) = "\n"
    THEN (IF line = <<>> THEN <<>> ELSE <<line>>) \o split_lines(Tail(text), <<>>)
    ELSE split_lines(Tail(text), Append(line, Head(text)))

\* Lines 217-238: the content of one relevant page
page_content(text, start_given, end_given) ==
    split_lines(apply_end_marker(apply_start_marker(text, start_given), end_given), <<>>)

\* Lines 208-213: the page numbers within the boundaries, in document order
relevant_pages(pages, start_page, end_page) ==
    SortedSeq({n \in DOMAIN pages : start_page <= n /\ n <= end_page})

\* Lines 216-242: the content of every relevant page that has content
RECURSIVE collect_relevant_data(_, _, _, _)
collect_relevant_data(pages, nums, start_given, end_given) ==
    IF nums = <<>> THEN <<>>
    ELSE LET content == page_content(pages[Head(nums)], start_given, end_given)
         IN  (IF content = <<>> THEN <<>> ELSE <<content>>)
                 \o collect_relevant_data(pages, Tail(nums), start_given, end_given)

PdfIdle ==
    /\ page_data = <<>>
    /\ data_start_page = 0
    /\ data_end_page = 0
    /\ has_start_marker = FALSE
    /\ has_end_marker = FALSE
    /\ pdf_relevant_data = <<>>
    /\ pdf_pc = "idle"

PdfInit ==
    /\ page_data \in SeqsUpTo(PageTexts, MaxPdfPages)
    /\ data_start_page \in PageBounds
    /\ data_end_page \in PageBounds
    /\ has_start_marker \in BOOLEAN
    /\ has_end_marker \in BOOLEAN
    /\ pdf_relevant_data = <<>>
    /\ pdf_pc = "start"

\* _extract_pdf_with_boundaries
ExtractPdfWithBoundaries ==
    /\ pdf_pc = "start"
    /\ pdf_relevant_data' =
           collect_relevant_data(page_data,
               relevant_pages(page_data, data_start_page, data_end_page),
               has_start_marker, has_end_marker)
    /\ pdf_pc' = "returned"
    /\ UNCHANGED <<page_data, data_start_page, data_end_page,
                   has_start_marker, has_end_marker>>
    /\ UNCHANGED not_pdfvars

(***************************************************************************)
(* Excel write step: write_data_with_mapping, clear_data_rows and          *)
(* write_property_info_with_mapping, in the order fill_combined_data calls *)
(* them on one sheet.  A worksheet is a function from <<row, column>> to   *)
(* the cell's value.                                                       *)
(***************************************************************************)
MaxRecords == 2

\* "end_row=data_start_row + len(data) + 10"
ClearExtraRows == 10

\* The rows and columns of the sheet that are looked at.
FirstDataRows == {2, 3}
SheetRows == 1..(MaxRecords + ClearExtraRows + 5)
SheetCols == 1..3
Cells == SheetRows \X SheetCols

Formulas == {"=SUM(A2:A9)", "=B2*12"}
OldValue == "old"

\* str(cell.value).startswith('=')
is_formula(v) == v \in Formulas

\* A record: every field with its value, Missing when the key is absent.
Missing == "<missing>"
Fields == {"unit", "rent", "extra"}
Records ==
    {[unit |-> "u1", rent |-> "r1",    extra |-> Missing],
     [unit |-> "u2", rent |-> Missing, extra |-> Missing],
     [unit |-> "u3", rent |-> "r3",    extra |-> "x3"]}

\* The "columns" of a mapping: the column number of the field's letter; 0
\* for a field that is not in the mapping or has an empty letter.
ColumnMappings ==
    {[unit |-> 1, rent |-> 3, extra |-> 0],
     [unit |-> 2, rent |-> 0, extra |-> 0],
     [unit |-> 0, rent |-> 0, extra |-> 0]}

\* Templates: earlier content in all columns from the first data row down,
\* formulas at some cells, and something in the property cells of row 1.
OldExtents == {0, 1, MaxRecords + ClearExtraRows + 2}
FormulaPlacings == {"none", "written_row", "gap_column", "below"}

formula_cells(placing, start) ==
    CASE placing = "written_row" -> {<<start, 1>>, <<1, 1>>}
      [] placing = "gap_column"  -> {<<start, 2>>}
      [] placing = "below"       -> {<<start + MaxRecords + 1, 3>>}
      [] OTHER                   -> {}

make_template(extent, placing, start) ==
    [cell \in Cells |->
        IF cell \in formula_cells(placing, start) THEN "=SUM(A2:A9)"
        ELSE IF cell[1] >= start /\ cell[1] < start + extent THEN OldValue
        ELSE IF cell = <<1, 2>> THEN OldValue
        ELSE PyNone]

\* Property data: the "name" key with its value, or absent.
PropertyDatas == {[name |-> "Elm Court"], [name |-> Missing]}

\* Single-cell mappings: the type, whether the sheet is in the workbook,
\* and the cell of the "name" field.
PropertyMappings ==
    {[type |-> "property_info", sheet_exists |-> TRUE,  cell |-> <<1, 1>>],
     [type |-> "property_info", sheet_exists |-> TRUE,  cell |-> <<1, 2>>],
     [type |-> "property_info", sheet_exists |-> FALSE, cell |-> <<1, 1>>],
     [type |-> "tabular",       sheet_exists |-> TRUE,  cell |-> <<1, 1>>]}

\* "column_numbers = [column_index_from_string(col) for col in column_letters]"
column_numbers(columns) == {columns[f] : f \in Fields} \ {0}

\* clear_data_rows: every cell of the range that is neither empty nor a
\* formula becomes None
clear_data_rows(ws, start_row, end_row, start_column, end_column) ==
    [cell \in DOMAIN ws |->
        IF /\ start_row <= cell[1] /\ cell[1] <= end_row
           /\ start_column <= cell[2] /\ cell[2] <= end_column
           /\ ws[cell] # PyNone
           /\ ~is_formula(ws[cell])
        THEN PyNone
        ELSE ws[cell]]

\* Lines 30-45: the clearing before the write
clear_existing(ws, data, columns, start) ==
    IF data # <<>> /\ column_numbers(columns) # {}
    THEN clear_data_rows(ws, start, start + Len(data) + ClearExtraRows,
                         Min(column_numbers(columns)),
                         Max(column_numbers(columns)))
    ELSE ws

\* Lines 51-55: one record into its row
write_row(ws, current_row, row_data, columns) ==
    [cell \in DOMAIN ws |->
        IF /\ cell[1] = current_row
           /\ \E f \in Fields : columns[f] = cell[2] /\ row_data[f] # Missing
        THEN row_data[CHOOSE f \in Fields :
                          columns[f] = cell[2] /\ row_data[f] # Missing]
        ELSE ws[cell]]

\* Lines 48-55: the records, one row each, in order
RECURSIVE write_rows(_, _, _, _, _)
write_rows(ws, data, row_index, columns, start) ==
    IF row_index >= Len(data) THEN ws
    ELSE write_rows(write_row(ws, start + row_index, data[row_index + 1], columns),
                    data, row_index + 1, columns, start)

\* write_data_with_mapping
write_data_with_mapping(ws, data, config) ==
    write_rows(clear_existing(ws, data, config.columns, config.data_start_row),
               data, 0, config.columns, config.data_start_row)

\* write_property_info_with_mapping
write_property_info_with_mapping(ws, data, config) ==
    IF config.type # "property_info" THEN ws
    ELSE IF data.name # Missing /\ config.sheet_exists
    THEN [ws EXCEPT ![config.cell] = data.name]
    ELSE ws

NoMapping == [columns |-> [f \in Fields |-> 0], data_start_row |-> 1]

WriteIdle ==
    /\ template = <<>>
    /\ write_data = <<>>
    /\ mapping_config = NoMapping
    /\ property_data = [name |-> Missing]
    /\ property_mapping = [type |-> "tabular", sheet_exists |-> FALSE, cell |-> <<1, 1>>]
    /\ worksheet = <<>>
    /\ write_pc = "idle"

WriteInit ==
    /\ \E s \in FirstDataRows, c \in ColumnMappings,
          e \in OldExtents, p \in FormulaPlacings :
           /\ mapping_config = [columns |-> c, data_start_row |-> s]
           /\ template = make_template(e, p, s)
    /\ write_data \in SeqsUpTo(Records, MaxRecords)
    /\ property_data \in PropertyDatas
    /\ property_mapping \in PropertyMappings
    /\ worksheet = template
    /\ write_pc = "start"

\* fill_combined_data, lines 63-97: the tabular write ("if rent_roll_data
\* and rent_roll_mapping" skips it for an empty list)
WriteDataWithMapping ==
    /\ write_pc = "start"
    /\ worksheet' = IF write_data # <<>>
                    THEN write_data_with_mapping(worksheet, write_data, mapping_config)
                    ELSE worksheet
    /\ write_pc' = "data_written"
    /\ UNCHANGED <<template, write_data, mapping_config, property_data,
                   property_mapping>>
    /\ UNCHANGED not_writevars

\* fill_combined_data, lines 99-110: the property cells
WritePropertyInfoWithMapping ==
    /\ write_pc = "data_written"
    /\ worksheet' = write_property_info_with_mapping(worksheet, property_data,
                                                     property_mapping)
    /\ write_pc' = "done"
    /\ UNCHANGED <<template, write_data, mapping_config, property_data,
                   property_mapping>>
    /\ UNCHANGED not_writevars

(***************************************************************************)
(* T12 multi-step flow: StructuringService.structure_t12_data and          *)
(* T12Repository.process_t12_data (validate, extract, categorize, join).   *)
(***************************************************************************)
\* categories.py
T12_REVENUE_CATEGORIES ==
    {"Residential Rent", "Commercial Rent", "Parking Revenue",
     "Renovated Apartments", "Improved Apartment Income", "Other Income"}
T12_DEDUCTION_CATEGORIES ==
    {"Residential Vacancy", "Commercial Vacancy", "Parking Vacancy", "Bad Debt"}
T12_EXPENSE_CATEGORIES ==
    {"Property Tax", "Insurance", "Electricity", "Water", "Gas",
     "Service Contracts", "Professional Fees", "R&M", "Leasing & Marketing",
     "Turnover", "G&A", "Payroll", "Management", "Asset Management"}
T12_SUBTOTAL_CATEGORIES == {"Subtotal", "Non-Operating Items"}
T12_VALID_CATEGORIES ==
    T12_REVENUE_CATEGORIES \cup T12_DEDUCTION_CATEGORIES
        \cup T12_EXPENSE_CATEGORIES \cup T12_SUBTOTAL_CATEGORIES \cup {"Unknown"}

\* A validation dict: is_valid (when the key is there) and validation_notes
\* (PyNone when the key is absent).
ValidationDict(has, valid, notes) ==
    [has_is_valid |-> has, is_valid |-> valid, validation_notes |-> notes]

\* What the validate call can do: raise, return text that does not parse,
\* return JSON that is not an object, or return a validation object.
ValidationOutcomes ==
    {[kind |-> "raises",      dict |-> ValidationDict(FALSE, FALSE, PyNone)],
     [kind |-> "unparseable", dict |-> ValidationDict(FALSE, FALSE, PyNone)],
     [kind |-> "not_object",  dict |-> ValidationDict(FALSE, FALSE, PyNone)],
     [kind |-> "object", dict |-> ValidationDict(TRUE, TRUE, "Line items and totals found")],
     [kind |-> "object", dict |-> ValidationDict(TRUE, FALSE, "No T12 totals found")],
     [kind |-> "object", dict |-> ValidationDict(FALSE, FALSE, PyNone)]}

\* What the extract and the categorize call can do: raise, return text that
\* does not parse into a list, or return a list of arrays.
ListOutcome(kind, items) == [kind |-> kind, items |-> items]
NoListOutcome == ListOutcome("none", <<>>)

ExtractionOutcomes ==
    {ListOutcome("raises", <<>>), ListOutcome("unparseable", <<>>)}
        \cup {ListOutcome("list", l) : l \in SeqsUpTo(ExtractedItems, MaxItems)}

\* The categorize response may name a category outside the fixed set.
LabeledItems == CategorizedItems \cup {<<"Misc", "Rental Income">>}

LabelingOutcomes ==
    {ListOutcome("raises", <<>>), ListOutcome("unparseable", <<>>)}
        \cup {ListOutcome("list", l) : l \in SeqsUpTo(LabeledItems, MaxCats)}

\* _validate_t12_structure: the dict it returns
validate_t12_structure(outcome) ==
    CASE outcome.kind = "raises" ->
             ValidationDict(TRUE, FALSE, "Validation failed: error")
      [] outcome.kind = "unparseable" ->
             ValidationDict(TRUE, FALSE, "Failed to parse LLM response as JSON")
      [] OTHER -> outcome.dict

\* Mutant: a validation result without is_valid counts as valid.
validation_passes_by_default(validation_result) ==
    IF validation_result.has_is_valid THEN validation_result.is_valid ELSE TRUE

\* validation_result.get("is_valid", False)
validation_passes(validation_result) ==
    validation_result.has_is_valid /\ validation_result.is_valid

\* validation_result.get('validation_notes', 'Unknown error')
validation_notes(validation_result) ==
    IF validation_result.validation_notes = PyNone THEN "Unknown error"
    ELSE validation_result.validation_notes

\* _extract_t12_line_items, _label_t12_categories: [] unless a list parsed
parsed_list(outcome) == IF outcome.kind = "list" THEN outcome.items ELSE <<>>

\* The tuple process_t12_data returns; the error message is a prefix and
\* the detail that follows it.
ErrorMessage(prefix, detail) == [prefix |-> prefix, detail |-> detail]
NoErrorMessage == ErrorMessage(PyNone, "")
process_failure(msg) ==
    [success |-> FALSE, structured_data |-> <<>>, error_message |-> msg]
process_success(data) ==
    [success |-> TRUE, structured_data |-> data, error_message |-> NoErrorMessage]
NoProcessResult == process_failure(NoErrorMessage)

ProcessIdle ==
    /\ t12_text_blank = FALSE
    /\ validation_response = [kind |-> "none", dict |-> ValidationDict(FALSE, FALSE, PyNone)]
    /\ extraction_response = NoListOutcome
    /\ labeling_response = NoListOutcome
    /\ t12_llm_calls = <<>>
    /\ join_done = FALSE
    /\ process_result = NoProcessResult
    /\ structured_t12_items = NONE
    /\ process_pc = "idle"

ProcessInit ==
    /\ t12_text_blank \in BOOLEAN
    /\ validation_response = [kind |-> "none", dict |-> ValidationDict(FALSE, FALSE, PyNone)]
    /\ extraction_response = NoListOutcome
    /\ labeling_response = NoListOutcome
    /\ t12_llm_calls = <<>>
    /\ join_done = FALSE
    /\ process_result = NoProcessResult
    /\ structured_t12_items = NONE
    /\ process_pc = "start"

\* structure_t12_data, lines 156-164: [] for an empty text, otherwise
\* process_t12_data is called.
StructureT12Begin ==
    /\ process_pc = "start"
    /\ IF t12_text_blank
       THEN /\ structured_t12_items' = Some(<<>>)
            /\ process_pc' = "done"
       ELSE /\ process_pc' = "validate"
            /\ UNCHANGED structured_t12_items
    /\ UNCHANGED <<t12_text_blank, validation_response, extraction_response,
                   labeling_response, t12_llm_calls, join_done, process_result>>
    /\ UNCHANGED not_procvars

\* process_t12_data, step 1: the validate call and the gate on is_valid.
\* Validation JSON that is not an object makes ".get" raise, which the outer
\* except turns into a failure.
ValidateT12Structure ==
    /\ process_pc = "validate"
    /\ \E outcome \in ValidationOutcomes :
           LET validation_result == validate_t12_structure(outcome) IN
           /\ validation_response' = outcome
           /\ t12_llm_calls' = Append(t12_llm_calls, "validate")
           /\ IF outcome.kind = "not_object"
              THEN /\ process_result' = process_failure(
                          ErrorMessage("T12 processing failed", "error"))
                   /\ process_pc' = "processed"
              ELSE IF ~validation_passes(validation_result)
              THEN /\ process_result' = process_failure(
                          ErrorMessage("T12 validation failed",
                                       validation_notes(validation_result)))
                   /\ process_pc' = "processed"
              ELSE /\ process_pc' = "extract"
                   /\ UNCHANGED process_result
    /\ UNCHANGED <<t12_text_blank, extraction_response, labeling_response,
                   join_done, structured_t12_items>>
    /\ UNCHANGED not_procvars

\* process_t12_data, step 2: the extract call.
ExtractT12LineItems ==
    /\ process_pc = "extract"
    /\ \E outcome \in ExtractionOutcomes :
           /\ extraction_response' = outcome
           /\ t12_llm_calls' = Append(t12_llm_calls, "extract")
           /\ IF parsed_list(outcome) = <<>>
              THEN /\ process_result' = process_failure(
                          ErrorMessage("Failed to extract line items from T12", ""))
                   /\ process_pc' = "processed"
              ELSE /\ process_pc' = "label"
                   /\ UNCHANGED process_result
    /\ UNCHANGED <<t12_text_blank, validation_response, labeling_response,
                   join_done, structured_t12_items>>
    /\ UNCHANGED not_procvars

\* process_t12_data, step 3: the categorize call.
LabelT12Categories ==
    /\ process_pc = "label"
    /\ \E outcome \in LabelingOutcomes :
           /\ labeling_response' = outcome
           /\ t12_llm_calls' = Append(t12_llm_calls, "categorize")
           /\ IF parsed_list(outcome) = <<>>
              THEN /\ process_result' = process_failure(
                          ErrorMessage("Failed to label categories for T12 line items", ""))
                   /\ process_pc' = "processed"
              ELSE /\ process_pc' = "join"
                   /\ UNCHANGED process_result
    /\ UNCHANGED <<t12_text_blank, validation_response, extraction_response,
                   join_done, structured_t12_items>>
    /\ UNCHANGED not_procvars

\* process_t12_data, steps 4 and 5: the join and the returned tuple.
CombineAmountsWithCategories ==
    /\ process_pc = "join"
    /\ LET final == match_categories_with_amounts(
                        parsed_list(extraction_response),
                        parsed_list(labeling_response))
       IN  process_result' =
               IF final = <<>>
               THEN process_failure(
                        ErrorMessage("Failed to combine amounts with categories", ""))
               ELSE process_success(final)
    /\ join_done' = TRUE
    /\ process_pc' = "processed"
    /\ UNCHANGED <<t12_text_blank, validation_response, extraction_response,
                   labeling_response, t12_llm_calls, structured_t12_items>>
    /\ UNCHANGED not_procvars

\* structure_t12_data, lines 164-176: [] when process_t12_data reports
\* failure, the objects otherwise.
StructureT12Return ==
    /\ process_pc = "processed"
    /\ structured_t12_items' =
           IF process_result.success
           THEN Some(convert_to_objects(process_result.structured_data))
           ELSE Some(<<>>)
    /\ process_pc' = "done"
    /\ UNCHANGED <<t12_text_blank, validation_response, extraction_response,
                   labeling_response, t12_llm_calls, join_done, process_result>>
    /\ UNCHANGED not_procvars

(***************************************************************************)
(* Row tolerance of convert_rent_roll_arrays_to_objects                    *)
(* (services/underwriting/structuring/utils.py)                            *)
(***************************************************************************)
MaxArrayRows == 2

StatusValues == {"Vacant", ""}
SizeValues   == {"750", "", "n/a", "inf"}
RentValues   == {"900.0", PyNone, "inf"}
LeaseValues  == {"2025-01-31", PyNone}

\* rows of 3 to 6 positions: unit, unit_type, status, unit_size, rent, lease
ArrayRows ==
    {<<"101", "1BR", s>> : s \in StatusValues}
    \cup {<<"101", "1BR", s, z>> : s \in StatusValues, z \in SizeValues}
    \cup {<<"101", "1BR", s, z, r>> :
            s \in StatusValues, z \in SizeValues, r \in RentValues}
    \cup {<<"101", "1BR", s, z, r, l>> :
            s \in StatusValues, z \in SizeValues, r \in RentValues, l \in LeaseValues}

ArrayDatas == UNION {[1..n -> ArrayRows] : n \in 0..MaxArrayRows}

ConvertIdle ==
    /\ row_arrays = <<>>
    /\ converted_units = <<>>
    /\ convert_pc = "idle"

ConvertInit ==
    /\ row_arrays \in ArrayDatas
    /\ converted_units = <<>>
    /\ convert_pc = "start"

\* the call returns the list of units, or the OverflowError leaves the function
ConvertRentRollArraysToObjects ==
    /\ convert_pc = "start"
    /\ IF convert_raises(row_arrays)
       THEN /\ convert_pc' = "raised"
            /\ converted_units' = <<>>
       ELSE /\ convert_pc' = "returned"
            /\ converted_units' = convert_rent_roll_arrays_to_objects(row_arrays)
    /\ UNCHANGED <<row_arrays>>
    /\ UNCHANGED not_convvars

(***************************************************************************)
(* The background job: confirm_upload creates the job as queued and adds   *)
(* process_extract_and_structure_background, which runs the orchestrator   *)
(* (api/v1/upload.py, _pipeline/extract_and_structure_orchestrator.py,     *)
(* om_classification/classification_stage.py, services/db/tables)          *)
(***************************************************************************)
FaultKinds == {"status", "other"}

\* update_job_status: applied, no row returned, or the call raises
StatusUpdateOutcomes ==
    IF "status" \in db_faults THEN {"applied", "none", "raises"} ELSE {"applied"}

\* every other database call of the pipeline
OtherCallOutcomes ==
    IF "other" \in db_faults THEN {"ok", "fails"} ELSE {"ok"}

\* deals_repo.update_deal: applied, no row returned, or the call raises
DealUpdateOutcomes ==
    IF "other" \in db_faults THEN {"applied", "none", "raises"} ELSE {"applied"}

\* mutant: a status update that is never applied
update_job_status_not_applied(current, status, outcome) == current

update_job_status(current, status, outcome) ==
    IF outcome = "applied" THEN status ELSE current

\* what the OM stage meets: the download, classify_pdf_pages and the two
\* generate_description calls
OMLLMOutcomes ==
    [download_ok    : BOOLEAN,
     classification : {"none", "no_pages", "pages"},
     deal           : {"ok", "raises"},
     market         : {"ok", "raises"}]

NoOMLLM == [download_ok |-> FALSE, classification |-> "none",
            deal |-> "raises", market |-> "raises"]

ClassificationStageOutput(bound, result, description, market_description) ==
    [bound                 |-> bound,
     classification_result |-> result,
     description           |-> description,
     market_description    |-> market_description]

\* before the OM branch the orchestrator has bound classification_result to
\* None and has not bound deal_description and market_description at all
NoOMOutput == ClassificationStageOutput(FALSE, FALSE, FALSE, FALSE)

\* ClassificationStage.process_classification: both descriptions are generated
\* inside one try block, the deal description first
process_classification(llm) ==
    IF ~llm.download_ok \/ llm.classification = "none"
    THEN ClassificationStageOutput(TRUE, FALSE, FALSE, FALSE)
    ELSE IF llm.classification = "no_pages"
    THEN ClassificationStageOutput(TRUE, TRUE, FALSE, FALSE)
    ELSE IF llm.deal = "raises"
    THEN ClassificationStageOutput(TRUE, TRUE, FALSE, FALSE)
    ELSE IF llm.market = "raises"
    THEN ClassificationStageOutput(TRUE, TRUE, TRUE, FALSE)
    ELSE ClassificationStageOutput(TRUE, TRUE, TRUE, TRUE)

JobIdle ==
    /\ has_om = FALSE /\ has_rr = FALSE /\ has_t12 = FALSE
    /\ db_faults = {}
    /\ job_status = "queued"
    /\ deal_status = "pending"
    /\ job_pc = "idle"
    /\ raised_at = "none"
    /\ stages_run = {}
    /\ om_llm = NoOMLLM
    /\ om_output = NoOMOutput
    /\ rr_extraction_result = FALSE
    /\ t12_extraction_result = FALSE

\* confirm_upload: the job record is created queued and the task is added
JobInit ==
    /\ has_om \in BOOLEAN /\ has_rr \in BOOLEAN /\ has_t12 \in BOOLEAN
    /\ db_faults \in SUBSET FaultKinds
    /\ job_status = "queued"
    /\ deal_status = "pending"
    /\ job_pc = "queued"
    /\ raised_at = "none"
    /\ stages_run = {}
    /\ om_llm = NoOMLLM
    /\ om_output = NoOMOutput
    /\ rr_extraction_result = FALSE
    /\ t12_extraction_result = FALSE

\* the except clause of the orchestrator re-raises into the background task
PipelineRaises(step) ==
    /\ job_pc' = "background_except"
    /\ raised_at' = step

\* orchestrator lines 42-58
OrchestratorBegin ==
    /\ job_pc = "queued"
    /\ \E get \in OtherCallOutcomes, upd \in StatusUpdateOutcomes,
          stage \in OtherCallOutcomes :
          IF get # "ok"
          THEN PipelineRaises("get_job") /\ UNCHANGED job_status
          ELSE IF upd # "applied"
          THEN PipelineRaises("set_running") /\ UNCHANGED job_status
          ELSE /\ job_status' = update_job_status(job_status, "running", upd)
               /\ IF stage # "ok"
                  THEN PipelineRaises("uploading_data")
                  ELSE job_pc' = "load_files" /\ UNCHANGED raised_at
    /\ UNCHANGED <<has_om, has_rr, has_t12, db_faults, deal_status, stages_run,
                   om_llm, om_output, rr_extraction_result, t12_extraction_result>>
    /\ UNCHANGED not_jobvars

\* orchestrator lines 60-85
LoadUploadFiles ==
    /\ job_pc = "load_files"
    /\ \E o \in OtherCallOutcomes :
          IF o # "ok" THEN PipelineRaises("load_files")
          ELSE job_pc' = "classify_om" /\ UNCHANGED raised_at
    /\ UNCHANGED <<has_om, has_rr, has_t12, db_faults, job_status, deal_status,
                   stages_run, om_llm, om_output, rr_extraction_result,
                   t12_extraction_result>>
    /\ UNCHANGED not_jobvars

\* orchestrator lines 87-111
ClassifyOMStage ==
    /\ job_pc = "classify_om"
    /\ IF has_om
       THEN \E stage \in OtherCallOutcomes, llm \in OMLLMOutcomes :
               IF stage # "ok"
               THEN /\ PipelineRaises("classify_om")
                    /\ UNCHANGED <<stages_run, om_llm, om_output>>
               ELSE /\ stages_run' = stages_run \cup {"om"}
                    /\ om_llm' = llm
                    /\ om_output' = process_classification(llm)
                    /\ job_pc' = "extract_rr"
                    /\ UNCHANGED raised_at
       ELSE /\ job_pc' = "extract_rr"
            /\ UNCHANGED <<raised_at, stages_run, om_llm, om_output>>
    /\ UNCHANGED <<has_om, has_rr, has_t12, db_faults, job_status, deal_status,
                   rr_extraction_result, t12_extraction_result>>
    /\ UNCHANGED not_jobvars

\* orchestrator lines 113-129
ExtractRRStage ==
    /\ job_pc = "extract_rr"
    /\ IF has_rr
       THEN \E stage \in OtherCallOutcomes, extracted \in BOOLEAN :
               IF stage # "ok"
               THEN /\ PipelineRaises("extract_rr")
                    /\ UNCHANGED <<stages_run, rr_extraction_result>>
               ELSE /\ stages_run' = stages_run \cup {"rr"}
                    /\ rr_extraction_result' = extracted
                    /\ job_pc' = "extract_t12"
                    /\ UNCHANGED raised_at
       ELSE /\ job_pc' = "extract_t12"
            /\ UNCHANGED <<raised_at, stages_run, rr_extraction_result>>
    /\ UNCHANGED <<has_om, has_rr, has_t12, db_faults, job_status, deal_status,
                   om_llm, om_output, t12_extraction_result>>
    /\ UNCHANGED not_jobvars

\* orchestrator lines 131-147
ExtractT12Stage ==
    /\ job_pc = "extract_t12"
    /\ IF has_t12
       THEN \E stage \in OtherCallOutcomes, extracted \in BOOLEAN :
               IF stage # "ok"
               THEN /\ PipelineRaises("extract_t12")
                    /\ UNCHANGED <<stages_run, t12_extraction_result>>
               ELSE /\ stages_run' = stages_run \cup {"t12"}
                    /\ t12_extraction_result' = extracted
                    /\ job_pc' = "structure"
                    /\ UNCHANGED raised_at
       ELSE /\ job_pc' = "structure"
            /\ UNCHANGED <<raised_at, stages_run, t12_extraction_result>>
    /\ UNCHANGED <<has_om, has_rr, has_t12, db_faults, job_status, deal_status,
                   om_llm, om_output, rr_extraction_result>>
    /\ UNCHANGED not_jobvars

\* orchestrator lines 149-165
StructureStage ==
    /\ job_pc = "structure"
    /\ IF rr_extraction_result \/ t12_extraction_result
       THEN \E stage \in OtherCallOutcomes :
               IF stage # "ok"
               THEN PipelineRaises("structure") /\ UNCHANGED stages_run
               ELSE /\ stages_run' = stages_run \cup {"structure"}
                    /\ job_pc' = "update_deal"
                    /\ UNCHANGED raised_at
       ELSE /\ job_pc' = "update_deal"
            /\ UNCHANGED <<raised_at, stages_run>>
    /\ UNCHANGED <<has_om, has_rr, has_t12, db_faults, job_status, deal_status,
                   om_llm, om_output, rr_extraction_result, t12_extraction_result>>
    /\ UNCHANGED not_jobvars

\* orchestrator lines 167-244: `if deal_description:` reads a local variable
\* that only the OM branch binds (UnboundLocalError otherwise)
UpdateDealRecord ==
    /\ job_pc = "update_deal"
    /\ IF ~om_output.bound
       THEN PipelineRaises("update_deal") /\ UNCHANGED deal_status
       ELSE \E o \in DealUpdateOutcomes :
               IF o = "raises"
               THEN PipelineRaises("update_deal") /\ UNCHANGED deal_status
               ELSE /\ deal_status' = IF o = "applied" THEN "draft" ELSE deal_status
                    /\ job_pc' = "mark_succeeded"
                    /\ UNCHANGED raised_at
    /\ UNCHANGED <<has_om, has_rr, has_t12, db_faults, job_status, stages_run,
                   om_llm, om_output, rr_extraction_result, t12_extraction_result>>
    /\ UNCHANGED not_jobvars

\* orchestrator lines 246-254
MarkJobSucceeded ==
    /\ job_pc = "mark_succeeded"
    /\ \E upd \in StatusUpdateOutcomes :
          /\ job_status' = update_job_status(job_status, "succeeded", upd)
          /\ IF upd = "raises"
             THEN PipelineRaises("mark_succeeded")
             ELSE job_pc' = "background_succeeded" /\ UNCHANGED raised_at
    /\ UNCHANGED <<has_om, has_rr, has_t12, db_faults, deal_status, stages_run,
                   om_llm, om_output, rr_extraction_result, t12_extraction_result>>
    /\ UNCHANGED not_jobvars

\* upload.py lines 105-108
BackgroundSucceeded ==
    /\ job_pc = "background_succeeded"
    /\ \E upd \in StatusUpdateOutcomes :
          /\ job_status' = update_job_status(job_status, "succeeded", upd)
          /\ IF upd = "raises"
             THEN PipelineRaises("background")
             ELSE job_pc' = "done" /\ UNCHANGED raised_at
    /\ UNCHANGED <<has_om, has_rr, has_t12, db_faults, deal_status, stages_run,
                   om_llm, om_output, rr_extraction_result, t12_extraction_result>>
    /\ UNCHANGED not_jobvars

\* upload.py lines 110-117
BackgroundExcept ==
    /\ job_pc = "background_except"
    /\ \E upd \in StatusUpdateOutcomes :
          job_status' = update_job_status(job_status, "failed", upd)
    /\ job_pc' = "done"
    /\ UNCHANGED <<has_om, has_rr, has_t12, db_faults, deal_status, raised_at,
                   stages_run, om_llm, om_output, rr_extraction_result,
                   t12_extraction_result>>
    /\ UNCHANGED not_jobvars

(***************************************************************************)
(* Re-chunking of a PDF precision extract: _chunk_pdf_rent_roll_data       *)
(* (services/underwriting/structuring/rr_repo.py).  A page of              *)
(* relevant_data is given by the length of its text.                       *)
(***************************************************************************)
MaxRRPages == 3
MaxPageLen == 3

PageLens == 1..MaxPageLen
RRChunkSizes == {MaxPageLen, MaxPageLen + 1}
RRStartPages == {1, 2}
HeaderLens == {0, 2}

\* len(header_context + '\n'.join(current_chunk))
RECURSIVE joined_len(_)
joined_len(current_chunk) ==
    IF current_chunk = <<>> THEN 0
    ELSE IF Len(current_chunk) = 1 THEN Head(current_chunk)
    ELSE Head(current_chunk) + 1 + joined_len(Tail(current_chunk))

\* current_chunk_size: the page sizes added up since the chunk was started
RECURSIVE chunk_size_of(_)
chunk_size_of(current_chunk) ==
    IF current_chunk = <<>> THEN 0
    ELSE Head(current_chunk) + chunk_size_of(Tail(current_chunk))

\* the chunk dict appended for current_chunk: its pages are counted from
\* boundaries["start_page"] for range(len(current_chunk))
rr_chunk(chunk_id, current_chunk, start_page, header_len) ==
    [chunk_id   |-> chunk_id,
     char_count |-> header_len + joined_len(current_chunk),
     pages      |-> [i \in 1..Len(current_chunk) |-> (i - 1) + start_page]]

\* for page_index, page_content in enumerate(relevant_data): ... and the
\* final chunk
RECURSIVE chunk_pdf_loop(_, _, _, _, _, _, _)
chunk_pdf_loop(data, k, max_size, start_page, header_len, done, current_chunk) ==
    IF k > Len(data)
    THEN IF current_chunk # <<>>
         THEN Append(done, rr_chunk(Len(done), current_chunk, start_page, header_len))
         ELSE done
    ELSE LET page_size == data[k]
             size_so_far == chunk_size_of(current_chunk)
         IN  IF current_chunk # <<>> /\ (size_so_far + page_size) > max_size
             THEN chunk_pdf_loop(data, k + 1, max_size, start_page, header_len,
                      Append(done, rr_chunk(Len(done), current_chunk, start_page, header_len)),
                      <<page_size>>)
             ELSE chunk_pdf_loop(data, k + 1, max_size, start_page, header_len,
                      done, Append(current_chunk, page_size))

chunk_pdf_rent_roll_data(data, max_size, start_page, header_len) ==
    IF data = <<>> THEN <<>>
    ELSE chunk_pdf_loop(data, 1, max_size, start_page, header_len, <<>>, <<>>)

RRChunkIdle ==
    /\ rr_relevant_data = <<>>
    /\ rr_start_page = 1
    /\ rr_chunk_size = MaxPageLen
    /\ rr_header_len = 0
    /\ rr_chunks = <<>>
    /\ rr_chunk_pc = "idle"

RRChunkInit ==
    /\ rr_relevant_data \in SeqsUpTo(PageLens, MaxRRPages)
    /\ rr_start_page \in RRStartPages
    /\ rr_chunk_size \in RRChunkSizes
    /\ rr_header_len \in HeaderLens
    /\ rr_chunks = <<>>
    /\ rr_chunk_pc = "start"

ChunkPdfRentRollData ==
    /\ rr_chunk_pc = "start"
    /\ rr_chunks' = chunk_pdf_rent_roll_data(rr_relevant_data, rr_chunk_size,
                                             rr_start_page, rr_header_len)
    /\ rr_chunk_pc' = "returned"
    /\ UNCHANGED <<rr_relevant_data, rr_start_page, rr_chunk_size, rr_header_len>>
    /\ UNCHANGED not_rrchunkvars

(***************************************************************************)
(* Pass-2 boundary context of a PDF: extract_full_boundary_context and     *)
(* extract_pdf_boundary_context (rent_roll_classification/utils.py) on the *)
(* text the stage builds (rr_extraction/rr_extract_stage.py).  A text is   *)
(* given by the lengths of its pages; a context is the slice text[from:to].*)
(***************************************************************************)
MaxCtxPages == 3
\* len("=== PAGE n ===\n") for a one-digit page number
PageMarkerLen == 15
\* len("\n\n"), the separator of "\n\n".join(text_parts)
PageSeparatorLen == 2
\* context_chars: int = 500
ContextChars == 500

PageTextLens == {0, 600, 1200}

\* offset in the text at which the marker of page p begins
RECURSIVE page_marker_begin(_, _)
page_marker_begin(lens, p) ==
    IF p = 1 THEN 0
    ELSE page_marker_begin(lens, p - 1) + PageMarkerLen + lens[p - 1]
             + PageSeparatorLen

\* offset at which the text of page p begins and the one just after its end
page_text_begin(lens, p) == page_marker_begin(lens, p) + PageMarkerLen
page_end(lens, p) == page_text_begin(lens, p) + lens[p]

\* len(text) of "\n\n".join(f"=== PAGE {page_num} ===\n{page_text}" ...)
text_length(lens) == IF lens = <<>> THEN 0 ELSE page_end(lens, Len(lens))

slice(from, to) == [from |-> from, to |-> to]
EmptyContext == [start_context |-> slice(0, 0), end_context |-> slice(0, 0)]

extract_pdf_boundary_context(lens, start_offset, end_offset, context_chars) ==
    IF text_length(lens) = 0 THEN EmptyContext
    ELSE LET start_end_idx == Min({start_offset + context_chars, text_length(lens)})
             end_start_idx == Max({0, end_offset - context_chars})
         IN  [start_context |-> slice(0, start_end_idx),
              end_context   |-> slice(Min({end_start_idx, text_length(lens)}),
                                      text_length(lens))]

\* file_type "pdf": the page numbers of pass 1 are passed as the offsets
extract_full_boundary_context(lens, boundaries) ==
    extract_pdf_boundary_context(lens, boundaries.data_start_page,
                                 boundaries.data_end_page, ContextChars)

ContextIdle ==
    /\ ctx_page_lens = <<>>
    /\ ctx_first_result = [data_start_page |-> 1, data_end_page |-> 1]
    /\ boundary_context = EmptyContext
    /\ ctx_pc = "idle"

ContextInit ==
    /\ ctx_page_lens \in SeqsUpTo(PageTextLens, MaxCtxPages)
    /\ ctx_first_result \in [data_start_page : 1..MaxCtxPages,
                             data_end_page   : 1..MaxCtxPages]
    /\ boundary_context = EmptyContext
    /\ ctx_pc = "start"

ExtractFullBoundaryContext ==
    /\ ctx_pc = "start"
    /\ boundary_context' = extract_full_boundary_context(ctx_page_lens, ctx_first_result)
    /\ ctx_pc' = "returned"
    /\ UNCHANGED <<ctx_page_lens, ctx_first_result>>
    /\ UNCHANGED not_ctxvars

(***************************************************************************)
(* Stripe webhook deliveries: process_webhook_event                        *)
(* (orchestration/billing/stripe_webhook_orchestrator.py) over the         *)
(* stripe_webhook_events table (services/db/tables).  A record has the     *)
(* primary key id (a UUID) and the column stripe_event_id.                 *)
(***************************************************************************)
MaxDeliveries == 2

Deliveries == 1..MaxDeliveries
StripeEventIds == {"evt_1", "evt_2"}

\* str(uuid) of the record created for a Stripe event id
RecordIdOf(stripe_event_id) ==
    IF stripe_event_id = "evt_1" THEN "uuid_1" ELSE "uuid_2"

WebhookRecord(exists, id, status, error_message) ==
    [exists |-> exists, id |-> id, status |-> status, error_message |-> error_message]

NoRecord == WebhookRecord(FALSE, PyNone, PyNone, PyNone)

\* get_webhook_event_by_stripe_id(...) is not None
is_event_processed(table, stripe_event_id) == table[stripe_event_id].exists

\* upsert_webhook_event with status 'pending': an existing record is set back
\* to pending (None fields are left out of the update), else one is created
upsert_webhook_event(table, stripe_event_id) ==
    IF table[stripe_event_id].exists
    THEN [table EXCEPT ![stripe_event_id].status = "pending"]
    ELSE [table EXCEPT ![stripe_event_id] =
              WebhookRecord(TRUE, RecordIdOf(stripe_event_id), "pending", PyNone)]

\* update ... .eq("stripe_event_id", key): the records whose stripe_event_id
\* column equals the key
update_webhook_event_by_stripe_id(table, key, status, error_message) ==
    [e \in DOMAIN table |->
        IF table[e].exists /\ e = key
        THEN WebhookRecord(TRUE, table[e].id, status,
                 IF error_message = PyNone THEN table[e].error_message
                 ELSE error_message)
        ELSE table[e]]

mark_event_as_processed(table, key) ==
    update_webhook_event_by_stripe_id(table, key, "processed", PyNone)

mark_event_as_failed(table, key, error_message) ==
    update_webhook_event_by_stripe_id(table, key, "failed", error_message)

WebhookIdle ==
    /\ wh_single_loop = TRUE
    /\ wh_event = [d \in Deliveries |-> "evt_1"]
    /\ wh_pc = [d \in Deliveries |-> "idle"]
    /\ wh_record_id = [d \in Deliveries |-> PyNone]
    /\ wh_handler_outcome = [d \in Deliveries |-> "none"]
    /\ wh_result = [d \in Deliveries |-> "none"]
    /\ webhook_events = [e \in StripeEventIds |-> NoRecord]
    /\ handler_runs = [e \in StripeEventIds |-> 0]

WebhookInit ==
    /\ wh_single_loop \in BOOLEAN
    /\ wh_event \in [Deliveries -> StripeEventIds]
    /\ wh_pc = [d \in Deliveries |-> "received"]
    /\ wh_record_id = [d \in Deliveries |-> PyNone]
    /\ wh_handler_outcome = [d \in Deliveries |-> "none"]
    /\ wh_result = [d \in Deliveries |-> "none"]
    /\ webhook_events = [e \in StripeEventIds |-> NoRecord]
    /\ handler_runs = [e \in StripeEventIds |-> 0]

\* On one event loop nothing suspends between the idempotency check and the
\* logging of the event (both are blocking database calls); deliveries that
\* are handled by different workers interleave at every database call.
NotPreempted(d) ==
    wh_single_loop => \A o \in Deliveries \ {d} : wh_pc[o] # "log"

\* lines 96-99
CheckEventProcessed(d) ==
    /\ wh_pc[d] = "received"
    /\ NotPreempted(d)
    /\ IF is_event_processed(webhook_events, wh_event[d])
       THEN /\ wh_result' = [wh_result EXCEPT ![d] = "already_processed"]
            /\ wh_pc' = [wh_pc EXCEPT ![d] = "returned"]
       ELSE /\ wh_pc' = [wh_pc EXCEPT ![d] = "log"]
            /\ UNCHANGED wh_result
    /\ UNCHANGED <<wh_single_loop, wh_event, wh_record_id, wh_handler_outcome,
                   webhook_events, handler_runs>>
    /\ UNCHANGED not_whvars

\* lines 101-103
LogWebhookEvent(d) ==
    /\ wh_pc[d] = "log"
    /\ webhook_events' = upsert_webhook_event(webhook_events, wh_event[d])
    /\ wh_record_id' = [wh_record_id EXCEPT ![d] = webhook_events'[wh_event[d]].id]
    /\ wh_pc' = [wh_pc EXCEPT ![d] = "route"]
    /\ UNCHANGED <<wh_single_loop, wh_event, wh_handler_outcome, wh_result,
                   handler_runs>>
    /\ UNCHANGED not_whvars

\* lines 105-108: the handler of the event type is called
RouteWebhookEvent(d) ==
    /\ wh_pc[d] = "route"
    /\ NotPreempted(d)
    /\ handler_runs' = [handler_runs EXCEPT ![wh_event[d]] = @ + 1]
    /\ \E outcome \in {"returned", "raised"} :
           wh_handler_outcome' = [wh_handler_outcome EXCEPT ![d] = outcome]
    /\ wh_pc' = [wh_pc EXCEPT ![d] = "mark"]
    /\ UNCHANGED <<wh_single_loop, wh_event, wh_record_id, wh_result, webhook_events>>
    /\ UNCHANGED not_whvars

\* lines 110-132: _mark_event_processed(webhook_event.id) or
\* _mark_event_failed(webhook_event.id, str(e)), then the return
MarkEventAndReturn(d) ==
    /\ wh_pc[d] = "mark"
    /\ NotPreempted(d)
    /\ IF wh_handler_outcome[d] = "returned"
       THEN /\ webhook_events' = mark_event_as_processed(webhook_events, wh_record_id[d])
            /\ wh_result' = [wh_result EXCEPT ![d] = "processed"]
       ELSE /\ webhook_events' =
                   mark_event_as_failed(webhook_events, wh_record_id[d], "handler error")
            /\ wh_result' = [wh_result EXCEPT ![d] = "failed"]
    /\ wh_pc' = [wh_pc EXCEPT ![d] = "returned"]
    /\ UNCHANGED <<wh_single_loop, wh_event, wh_record_id, wh_handler_outcome,
                   handler_runs>>
    /\ UNCHANGED not_whvars

(***************************************************************************)
(* Specifications                                                          *)
(***************************************************************************)
InitT12Join == T12JoinInit /\ ChunkIdle /\ StageIdle /\ OMIdle /\ BoundaryIdle
    /\ ExcelIdle
    /\ PdfIdle
    /\ WriteIdle
    /\ ProcessIdle
    /\ ConvertIdle
    /\ JobIdle
    /\ RRChunkIdle
    /\ ContextIdle
    /\ WebhookIdle
NextT12Join == MatchCategoriesWithAmounts
SpecT12Join == InitT12Join /\ [][NextT12Join]_vars

InitChunker == ChunkerInit /\ T12Idle /\ StageIdle /\ OMIdle /\ BoundaryIdle
    /\ ExcelIdle
    /\ PdfIdle
    /\ WriteIdle
    /\ ProcessIdle
    /\ ConvertIdle
    /\ JobIdle
    /\ RRChunkIdle
    /\ ContextIdle
    /\ WebhookIdle
NextChunker == ChunkPage \/ ChunkReturn
SpecChunker == InitChunker /\ [][NextChunker]_vars

InitStructure == StageInit /\ T12Idle /\ ChunkIdle /\ OMIdle /\ BoundaryIdle
    /\ ExcelIdle
    /\ PdfIdle
    /\ WriteIdle
    /\ ProcessIdle
    /\ ConvertIdle
    /\ JobIdle
    /\ RRChunkIdle
    /\ ContextIdle
    /\ WebhookIdle
NextStructure ==
    \/ CreateTasks
    \/ RRStructureStart
    \/ \E i \in 1..MaxChunks : ProcessChunk(i)
    \/ RRCombine
    \/ T12Structure
    \/ StageCollect
SpecStructure == InitStructure /\ [][NextStructure]_vars

InitOMClassify == OMInit /\ T12Idle /\ ChunkIdle /\ StageIdle /\ BoundaryIdle
    /\ ExcelIdle
    /\ PdfIdle
    /\ WriteIdle
    /\ ProcessIdle
    /\ ConvertIdle
    /\ JobIdle
    /\ RRChunkIdle
    /\ ContextIdle
    /\ WebhookIdle
NextOMClassify == ClassifyChunk \/ MergeResults
SpecOMClassify == InitOMClassify /\ [][NextOMClassify]_vars

InitBoundary == BoundaryInit /\ T12Idle /\ ChunkIdle /\ StageIdle /\ OMIdle
    /\ ExcelIdle
    /\ PdfIdle
    /\ WriteIdle
    /\ ProcessIdle
    /\ ConvertIdle
    /\ JobIdle
    /\ RRChunkIdle
    /\ ContextIdle
    /\ WebhookIdle
NextBoundary == RRStageBegin \/ AnalyzePass1 \/ ValidatePass2 \/ RRStageFinish
SpecBoundary == InitBoundary /\ [][NextBoundary]_vars

InitExcelExtract == ExcelInit /\ T12Idle /\ ChunkIdle /\ StageIdle /\ OMIdle
    /\ BoundaryIdle
    /\ PdfIdle
    /\ WriteIdle
    /\ ProcessIdle
    /\ ConvertIdle
    /\ JobIdle
    /\ RRChunkIdle
    /\ ContextIdle
    /\ WebhookIdle
NextExcelExtract == ExtractExcelWithBoundaries
SpecExcelExtract == InitExcelExtract /\ [][NextExcelExtract]_vars

InitPdfExtract == PdfInit /\ T12Idle /\ ChunkIdle /\ StageIdle /\ OMIdle
    /\ BoundaryIdle
    /\ ExcelIdle
    /\ WriteIdle
    /\ ProcessIdle
    /\ ConvertIdle
    /\ JobIdle
    /\ RRChunkIdle
    /\ ContextIdle
    /\ WebhookIdle
NextPdfExtract == ExtractPdfWithBoundaries
SpecPdfExtract == InitPdfExtract /\ [][NextPdfExtract]_vars

InitExcelWrite == WriteInit /\ T12Idle /\ ChunkIdle /\ StageIdle /\ OMIdle
    /\ BoundaryIdle
    /\ ExcelIdle
    /\ PdfIdle
    /\ ProcessIdle
    /\ ConvertIdle
    /\ JobIdle
    /\ RRChunkIdle
    /\ ContextIdle
    /\ WebhookIdle
NextExcelWrite == WriteDataWithMapping \/ WritePropertyInfoWithMapping
SpecExcelWrite == InitExcelWrite /\ [][NextExcelWrite]_vars

InitT12Process == ProcessInit /\ T12Idle /\ ChunkIdle /\ StageIdle /\ OMIdle
    /\ BoundaryIdle
    /\ ExcelIdle
    /\ PdfIdle
    /\ WriteIdle
    /\ ConvertIdle
    /\ JobIdle
    /\ RRChunkIdle
    /\ ContextIdle
    /\ WebhookIdle
NextT12Process ==
    \/ StructureT12Begin
    \/ ValidateT12Structure
    \/ ExtractT12LineItems
    \/ LabelT12Categories
    \/ CombineAmountsWithCategories
    \/ StructureT12Return
SpecT12Process == InitT12Process /\ [][NextT12Process]_vars


InitConvert ==
    /\ ConvertInit
    /\ T12Idle /\ ChunkIdle /\ StageIdle /\ OMIdle /\ BoundaryIdle
    /\ ExcelIdle /\ PdfIdle /\ WriteIdle /\ ProcessIdle /\ JobIdle /\ RRChunkIdle /\ ContextIdle /\ WebhookIdle

NextConvert == ConvertRentRollArraysToObjects

SpecConvert == InitConvert /\ [][NextConvert]_vars


InitJob ==
    /\ JobInit
    /\ T12Idle /\ ChunkIdle /\ StageIdle /\ OMIdle /\ BoundaryIdle
    /\ ExcelIdle /\ PdfIdle /\ WriteIdle /\ ProcessIdle /\ ConvertIdle /\ RRChunkIdle /\ ContextIdle /\ WebhookIdle

NextJob ==
    \/ OrchestratorBegin
    \/ LoadUploadFiles
    \/ ClassifyOMStage
    \/ ExtractRRStage
    \/ ExtractT12Stage
    \/ StructureStage
    \/ UpdateDealRecord
    \/ MarkJobSucceeded
    \/ BackgroundSucceeded
    \/ BackgroundExcept

SpecJob == InitJob /\ [][NextJob]_vars

\* the event loop runs the background task to its end: every awaited stage
\* returns and every step that can be taken is taken
SpecJobFair == SpecJob /\ WF_vars(NextJob)


InitRRChunk ==
    /\ RRChunkInit
    /\ T12Idle /\ ChunkIdle /\ StageIdle /\ OMIdle /\ BoundaryIdle
    /\ ExcelIdle /\ PdfIdle /\ WriteIdle /\ ProcessIdle /\ ConvertIdle /\ JobIdle /\ ContextIdle /\ WebhookIdle

NextRRChunk == ChunkPdfRentRollData

SpecRRChunk == InitRRChunk /\ [][NextRRChunk]_vars


InitContext ==
    /\ ContextInit
    /\ T12Idle /\ ChunkIdle /\ StageIdle /\ OMIdle /\ BoundaryIdle
    /\ ExcelIdle /\ PdfIdle /\ WriteIdle /\ ProcessIdle /\ ConvertIdle /\ JobIdle
    /\ RRChunkIdle /\ WebhookIdle

NextContext == ExtractFullBoundaryContext

SpecContext == InitContext /\ [][NextContext]_vars


InitWebhook ==
    /\ WebhookInit
    /\ T12Idle /\ ChunkIdle /\ StageIdle /\ OMIdle /\ BoundaryIdle
    /\ ExcelIdle /\ PdfIdle /\ WriteIdle /\ ProcessIdle /\ ConvertIdle /\ JobIdle
    /\ RRChunkIdle /\ ContextIdle

NextWebhook ==
    \E d \in Deliveries :
        \/ CheckEventProcessed(d)
        \/ LogWebhookEvent(d)
        \/ RouteWebhookEvent(d)
        \/ MarkEventAndReturn(d)

SpecWebhook == InitWebhook /\ [][NextWebhook]_vars

(***************************************************************************)
(* C1  T12 join completeness                                               *)
(***************************************************************************)
AllPairs(items) == \A i \in DOMAIN items : Len(items[i]) >= 2

\* The categories the categorization gives for a line item: those of the
\* well-formed entries whose label is exactly equal to it.
GivenCategories(li) ==
    {line_items_and_categories[j][2] :
        j \in {k \in DOMAIN line_items_and_categories :
                   /\ Len(line_items_and_categories[k]) >= 2
                   /\ line_items_and_categories[k][1] = li}}

\* C1: when every extracted item is a [line_item, amount] pair, the join
\* returns exactly one triple per pair, in extraction order, with line item
\* and amount unchanged; its category is one the categorization gives for
\* that exact line item, and "Unknown" when it gives none.
C1_JoinComplete ==
    (t12_pc = "returned" /\ AllPairs(line_items_and_amounts)) =>
        /\ Len(final_categorized_items) = Len(line_items_and_amounts)
        /\ \A i \in DOMAIN line_items_and_amounts :
               LET pair == line_items_and_amounts[i]
                   triple == final_categorized_items[i]
               IN  /\ Len(triple) = 3
                   /\ triple[1] = pair[1]
                   /\ triple[2] = pair[2]
                   /\ IF GivenCategories(pair[1]) = {}
                      THEN triple[3] = "Unknown"
                      ELSE triple[3] \in GivenCategories(pair[1])

\* The spec's example: one matched item and one unmatched item, joined.
C1_Witness ==
    /\ t12_pc = "returned"
    /\ line_items_and_amounts = <<<<"Base Rent", 50000>>, <<"Misc", 200>>>>
    /\ line_items_and_categories = <<<<"Base Rent", "Residential Rent">>,
                                     <<"Extra", "Other Income">>>>
    /\ final_categorized_items = <<<<"Base Rent", 50000, "Residential Rent">>,
                                   <<"Misc", 200, "Unknown">>>>

(***************************************************************************)
(* C2, C3  Page chunker                                                    *)
(***************************************************************************)
ChunkPages == [i \in DOMAIN chunks |-> chunks[i].pages]

\* C2: the chunks' pages lists, concatenated in chunk order, are the page
\* numbers of the map in ascending order, each exactly once.
C2_ChunkCoverage ==
    chunk_pc = "returned" =>
        Flatten(ChunkPages) = SortedSeq(DOMAIN pages_text)

\* Several pages spread over several chunks, one of which holds two pages.
C2_Witness ==
    /\ chunk_pc = "returned"
    /\ Len(chunks) >= 2
    /\ Cardinality(DOMAIN pages_text) >= 3
    /\ \E i \in DOMAIN chunks : Len(chunks[i].pages) >= 2

\* C3 as claimed: a chunk is over budget only if it is a single page whose
\* own text is longer than S, and then it is flagged; every other chunk is
\* within budget and not flagged.
C3_AsClaimed ==
    chunk_pc = "returned" =>
        \A i \in DOMAIN chunks :
            LET c == chunks[i] IN
            /\ c.char_count > chunk_size =>
                   /\ Len(c.pages) = 1
                   /\ pages_text[c.pages[1]] > chunk_size
                   /\ c.oversized
            /\ c.char_count <= chunk_size => ~c.oversized

\* C3 (amended): a chunk is over budget only if it is a single page whose
\* page content (page marker plus text, which is what char_count counts) is
\* longer than S, and then it is flagged oversized; every other chunk has
\* char_count <= S and is not flagged.
C3_OversizedOnlySinglePage ==
    chunk_pc = "returned" =>
        \A i \in DOMAIN chunks :
            LET c == chunks[i] IN
            /\ c.char_count > chunk_size =>
                   /\ Len(c.pages) = 1
                   /\ page_content_size(c.pages[1], pages_text[c.pages[1]])
                          > chunk_size
                   /\ c.char_count =
                          page_content_size(c.pages[1], pages_text[c.pages[1]])
                   /\ c.oversized
            /\ c.char_count <= chunk_size => ~c.oversized

\* An oversized single page between two ordinary chunks.
C3_Witness ==
    /\ chunk_pc = "returned"
    /\ \E i \in DOMAIN chunks : chunks[i].oversized
    /\ \E i \in DOMAIN chunks :
           ~chunks[i].oversized /\ Len(chunks[i].pages) >= 2

(***************************************************************************)
(* C4, C5, C6  Structure stage                                             *)
(***************************************************************************)
\* A chunk task fails when its LLM call raises, its response does not parse
\* into a list, or the conversion of its rows raises.
ChunkFailed(i) ==
    \/ chunk_responses[i].kind # "rows"
    \/ convert_raises(chunk_responses[i].data)

\* The units a chunk yields when its task does not fail.
UnitsOfChunk(i) == convert_rent_roll_arrays_to_objects(chunk_responses[i].data)

RRRan == rr_task = "done" /\ ~rr_setup_raises

\* C4: whichever chunk tasks fail, the rent-roll result holds exactly the
\* units of the chunks that did not fail (a failed chunk contributes
\* nothing), and the T12 result in the stage output is what the T12 task
\* alone determines.
C4_ChunkFailureIsolated ==
    /\ RRRan =>
           rr_result = Flatten([i \in DOMAIN chunk_responses |->
                           IF ChunkFailed(i) THEN <<>> ELSE UnitsOfChunk(i)])
    /\ (stage_pc = "done" /\ t12_plain_text) =>
           stage_output.structured_t12 = Some(structure_t12_data(t12_outcome))

\* Chunk 2 of 3 fails; the units of chunks 1 and 3 and the T12 items are in
\* the stage output.
C4_Witness ==
    /\ stage_pc = "done"
    /\ Len(chunk_responses) = 3
    /\ ~ChunkFailed(1) /\ chunk_responses[2].kind = "llm_raises" /\ ~ChunkFailed(3)
    /\ stage_output.structured_rent_roll = Some(UnitsOfChunk(1) \o UnitsOfChunk(3))
    /\ UnitsOfChunk(1) # <<>> /\ UnitsOfChunk(3) # <<>>
    /\ t12_plain_text /\ t12_outcome = "ok"
    /\ stage_output.structured_t12.value # <<>>

\* A task fails when an exception is raised inside it.
RRTaskFailed  == rr_extraction /\ rr_setup_raises
T12TaskFailed == t12_plain_text /\ t12_outcome = "raises"

IsEmptyOrNull(opt) == opt.is_none \/ opt.value = <<>>

\* C5 as claimed: when one of the two tasks fails, the other task's result
\* is in the stage output, the failed category's result is empty or null,
\* and the recorded error names the failed task.
C5_AsClaimed ==
    stage_pc = "done" =>
        /\ RRTaskFailed =>
               /\ IsEmptyOrNull(stage_output.structured_rent_roll)
               /\ t12_plain_text =>
                      stage_output.structured_t12 = Some(t12_result)
               /\ \E k \in DOMAIN stage_output.errors :
                      stage_output.errors[k] = "RR"
        /\ T12TaskFailed =>
               /\ IsEmptyOrNull(stage_output.structured_t12)
               /\ rr_extraction =>
                      stage_output.structured_rent_roll = Some(rr_result)
               /\ \E k \in DOMAIN stage_output.errors :
                      stage_output.errors[k] = "T12"

ChunkValue(i) == chunk_results[i].result.value

RECURSIVE SumLen(_)
SumLen(ss) == IF ss = <<>> THEN 0 ELSE Len(Head(ss)) + SumLen(Tail(ss))

\* C6: whatever order the chunk tasks completed in, the returned list is the
\* per-chunk unit lists concatenated in ascending chunk order, and it has as
\* many units as the chunks produced together (equal units from different
\* chunks are all kept).
C6_ConcatInChunkOrder ==
    RRRan =>
        /\ rr_result = Flatten([i \in DOMAIN chunk_results |-> ChunkValue(i)])
        /\ Len(rr_result) =
               SumLen([i \in DOMAIN chunk_results |-> ChunkValue(i)])

\* The last chunk completed first, the chunks yield different units except
\* that the first and the last yield an equal unit, which is kept twice.
C6_Witness ==
    /\ RRRan
    /\ Len(completion_order) = 3
    /\ completion_order[1] = 3
    /\ ChunkValue(1) # <<>>
    /\ ChunkValue(1) = ChunkValue(3)
    /\ ChunkValue(2) # <<>>
    /\ ChunkValue(2) # ChunkValue(1)
    /\ rr_result = ChunkValue(1) \o ChunkValue(2) \o ChunkValue(3)

(***************************************************************************)
(* C7, C8, C9  OM classification merge                                     *)
(***************************************************************************)
\* The per-chunk results as merge_results receives them.
model_results ==
    [k \in DOMAIN classification_results |-> from_dict(classification_results[k])]

\* C7: every merged scalar field is the field's value in the first chunk
\* where it is non-null, and null only when it is null in every chunk.
C7_ScalarFirstWins ==
    om_pc = "returned" =>
        LET mr == model_results IN
        \A f \in PropertyInfoFields :
            LET nonnull == {k \in DOMAIN mr : ~mr[k].props[f].is_none} IN
            IF nonnull = {}
            THEN schema_result.props[f].is_none
            ELSE LET first == CHOOSE k \in nonnull : \A j \in nonnull : k <= j
                 IN  schema_result.props[f] = mr[first].props[f]

\* The spec's example: chunks [null, "X", "Y"] merge to "X".
C7_Witness ==
    /\ om_pc = "returned"
    /\ Len(model_results) = 3
    /\ model_results[1].props["property_name"].is_none
    /\ model_results[2].props["property_name"].value = "X"
    /\ model_results[3].props["property_name"].value = "Y"
    /\ schema_result.props["property_name"].value = "X"

StrictlyAscending(s) == \A i, j \in DOMAIN s : i < j => s[i] < s[j]

\* C8: every merged page list is strictly ascending and holds exactly the
\* pages of that field in some chunk; merging the chunks in any other order,
\* or with one chunk merged in twice, gives the same page lists.
C8_PageListUnion ==
    om_pc = "returned" =>
        LET mr == model_results IN
        \A f \in PageListFields :
            /\ StrictlyAscending(schema_result.lists[f])
            /\ Range(schema_result.lists[f]) =
                   UNION {Range(mr[k].lists[f]) : k \in DOMAIN mr}
            /\ \A pi \in Permutations(DOMAIN mr) :
                   merge_pages([k \in DOMAIN mr |-> mr[pi[k]]], f)
                       = schema_result.lists[f]
            /\ \A i \in DOMAIN mr :
                   merge_pages(Append(mr, mr[i]), f) = schema_result.lists[f]

\* Two chunks with overlapping t12 pages, the later chunk holding the
\* smaller page number.
C8_Witness ==
    /\ om_pc = "returned"
    /\ Len(model_results) >= 2
    /\ model_results[1].lists["t12"] = <<2, 3>>
    /\ model_results[2].lists["t12"] = <<1, 2>>
    /\ schema_result.lists["t12"] = <<1, 2, 3>>

\* The LLM call of chunk k raised, or its response could not be parsed.
OMChunkFailed(k) ==
    \/ om_responses[k].kind \in {"llm_raises", "no_json", "bad_json"}
    \/ \E f \in PropertyInfoFields : om_responses[k].props[f].shape = "bad_page"

\* The parsed results of the chunks that did not fail, in chunk order.
OtherChunksResults ==
    LET F[k \in 0..Len(om_responses)] ==
            IF k = 0 THEN <<>>
            ELSE IF OMChunkFailed(k) THEN F[k - 1]
            ELSE Append(F[k - 1], parse_llm_response(om_responses[k]))
    IN  F[Len(om_responses)]

\* C9: a failed chunk contributes the empty result, every chunk is still
\* classified, and the merged result is the merge of the results of the
\* chunks that did not fail.
C9_ChunkFailureIsolated ==
    /\ \A k \in DOMAIN classification_results :
           OMChunkFailed(k) => classification_results[k] = create_empty_result
    /\ om_pc = "returned" =>
           /\ Len(classification_results) = num_chunks
           /\ schema_result = convert_and_merge(OtherChunksResults)

\* The first chunk's LLM call raises and the second chunk's response does
\* not parse; the third chunk's values are the merged result.
C9_Witness ==
    /\ om_pc = "returned"
    /\ num_chunks = 3
    /\ om_responses[1].kind = "llm_raises"
    /\ om_responses[2].kind = "json" /\ OMChunkFailed(2)
    /\ ~OMChunkFailed(3)
    /\ schema_result.props["property_name"].value = "Y"
    /\ schema_result.lists["t12"] = <<2, 3>>

(***************************************************************************)
(* C10  Pass 1 has no fallback                                             *)
(***************************************************************************)
\* The response holds a parseable JSON object somewhere.
ContainsParseableObject(text) ==
    \E i, j \in DOMAIN text : i < j /\ json_valid(SubSeq(text, i, j))

Pass1Unparseable ==
    /\ llm_calls # <<>>
    /\ ~detect_response.raises
    /\ ~ContainsParseableObject(detect_response.text)

\* C10: when the pass-1 response holds no parseable JSON object, the
\* analysis returns no classification, the validate call is never made, and
\* the stage reports failure without a precision extraction.
C10_Pass1NoFallback ==
    Pass1Unparseable =>
        /\ analysis_pc = "returned"
        /\ classification_result.is_none
        /\ llm_calls = <<"detect">>
        /\ validate_response = NoOutcome
        /\ rr_stage_pc = "done" =>
               /\ ~rr_stage_output.extraction_success
               /\ ~rr_stage_output.rr_extraction
               /\ rr_stage_output.error_message =
                      "Classification failed - no boundaries detected"

\* A pass-1 response with braces around text that is not JSON: the stage has
\* ended in failure after the single detect call.
C10_Witness ==
    /\ rr_stage_pc = "done"
    /\ detect_response.text = <<"{", "garbage", "}">>
    /\ llm_calls = <<"detect">>
    /\ ~rr_stage_output.extraction_success

(***************************************************************************)
(* C11  Pass 2 is best effort                                              *)
(***************************************************************************)
\* Pass 2 was called and it raised, or its response holds no parseable JSON.
Pass2Failed ==
    /\ analysis_pc = "returned"
    /\ llm_calls = <<"detect", "validate">>
    /\ \/ validate_response.raises
       \/ ~ContainsParseableObject(validate_response.text)

\* The pass-2 response parsed: the greedy match is a JSON object.
Pass2Parsed ==
    /\ ~validate_response.raises
    /\ search_greedy(validate_response.text) # NoMatch
    /\ json_valid(search_greedy(validate_response.text))

ClampedRows(data, start, end) ==
    LET lo == IF start < 1 THEN 1 ELSE start
        hi == IF end > Len(data) THEN Len(data) ELSE end
    IN  IF lo <= hi THEN [k \in 1..(hi - lo + 1) |-> data[lo + k - 1]] ELSE <<>>

\* C12 as claimed: for any integer start and end row the extraction returns
\* exactly the rows at 1-based indices max(start_row, 1) .. min(end_row, n),
\* and it raises only when the target sheet is missing.
C12_AsClaimed ==
    /\ excel_pc = "returned" =>
           relevant_data = ClampedRows(sheet_data, data_start_row, data_end_row)
    /\ excel_pc = "raised" => ~has_target_sheet

(***************************************************************************)
(* C13  PDF markers                                                        *)
(***************************************************************************)
\* The content the claim gives page n of the range: the start marker trims
\* the first page only, the end marker the last page only.
ClaimedContent(nums, k) ==
    page_content(page_data[nums[k]],
                 has_start_marker /\ k = 1,
                 has_end_marker /\ k = Len(nums))

ClaimedRelevantData ==
    LET nums == relevant_pages(page_data, data_start_page, data_end_page)
        all  == [k \in DOMAIN nums |-> ClaimedContent(nums, k)]
    IN  SelectSeq(all, LAMBDA c : c # <<>>)

\* C13 as claimed: the start marker trims only the first page of the range,
\* the end marker only the last page, and every other page of the range is
\* kept in full.
C13_AsClaimed ==
    pdf_pc = "returned" => pdf_relevant_data = ClaimedRelevantData

(***************************************************************************)
(* C14, C15, C16  Excel write step                                         *)
(***************************************************************************)
\* C14 as claimed: after the write step every cell that held a formula in
\* the template still holds that formula.
C14_AsClaimed ==
    write_pc \in {"data_written", "done"} =>
        \A cell \in Cells :
            is_formula(template[cell]) => worksheet[cell] = template[cell]

\* The row of record i (1-based position in the data).
RowOf(i) == mapping_config.data_start_row + i - 1

Mapped(f) == mapping_config.columns[f] # 0

\* C15 as claimed: no cell holds the value of a field that the mapping does
\* not name, and where a record lacks a mapped field the cell at the
\* record's row and the field's column still holds the template's value.
C15_AsClaimed ==
    write_pc = "data_written" =>
        /\ \A i \in DOMAIN write_data : \A f \in Fields :
               (~Mapped(f) /\ write_data[i][f] # Missing) =>
                   \A cell \in Cells : worksheet[cell] # write_data[i][f]
        /\ \A i \in DOMAIN write_data : \A f \in Fields :
               (Mapped(f) /\ write_data[i][f] = Missing) =>
                   worksheet[<<RowOf(i), mapping_config.columns[f]>>]
                       = template[<<RowOf(i), mapping_config.columns[f]>>]

\* C16 as claimed: after N >= 1 records are written every record is in its
\* row of the mapped columns, and no earlier non-formula value of the mapped
\* columns remains below the new records.
C16_AsClaimed ==
    (write_pc = "data_written" /\ write_data # <<>>) =>
        /\ \A i \in DOMAIN write_data : \A f \in Fields :
               (Mapped(f) /\ write_data[i][f] # Missing) =>
                   worksheet[<<RowOf(i), mapping_config.columns[f]>>]
                       = write_data[i][f]
        /\ \A cell \in Cells :
               (/\ cell[2] \in column_numbers(mapping_config.columns)
                /\ cell[1] >= RowOf(Len(write_data) + 1)
                /\ template[cell] = OldValue)
                   => worksheet[cell] # OldValue

(***************************************************************************)
(* C17, C18  T12 multi-step flow                                           *)
(***************************************************************************)
\* C17 as claimed: every line item structure_t12_data returns has a category
\* of the fixed T12 category set (which holds "Unknown"), whatever the
\* categorize response names.
C17_AsClaimed ==
    process_pc = "done" =>
        \A k \in DOMAIN structured_t12_items.value :
            structured_t12_items.value[k].category \in T12_VALID_CATEGORIES

T12CallOrder == <<"validate", "extract", "categorize">>

\* The validate call was made and its outcome is negative: is_valid false
\* or absent, or a response that does not parse (or a call that raised).
ValidationNegative ==
    /\ validation_response.kind \in {"raises", "unparseable", "object"}
    /\ ~(validation_response.dict.has_is_valid /\ validation_response.dict.is_valid)

\* C18: the LLM calls made are an initial part of validate, extract,
\* categorize (so each is made at most once, in that order); the join runs
\* only after all three; after a negative validation no further call is
\* made and the result is a failure whose message carries the validation's
\* explanation.
C18_CallOrderAndGate ==
    /\ Len(t12_llm_calls) <= Len(T12CallOrder)
    /\ t12_llm_calls = SubSeq(T12CallOrder, 1, Len(t12_llm_calls))
    /\ join_done => t12_llm_calls = T12CallOrder
    /\ ValidationNegative =>
           /\ t12_llm_calls = <<"validate">>
           /\ process_pc \in {"processed", "done"}
           /\ ~join_done
           /\ ~process_result.success
           /\ process_result.structured_data = <<>>
           /\ process_result.error_message.prefix = "T12 validation failed"
           /\ process_result.error_message.detail # ""

\* A validation object without the is_valid key: structure_t12_data has
\* returned after the single validate call.
C18_Witness ==
    /\ process_pc = "done"
    /\ validation_response.kind = "object"
    /\ ~validation_response.dict.has_is_valid
    /\ t12_llm_calls = <<"validate">>
    /\ ~process_result.success
    /\ process_result.error_message = ErrorMessage("T12 validation failed", "Unknown error")

(***************************************************************************)
(* C19  T12 validation rejection at the stage                              *)
(***************************************************************************)
\* C19 as claimed: when T12 validation rejects the document the structure
\* stage reports a failure that carries an error, not a successful run with
\* an empty T12 list.
C19_AsClaimed ==
    (stage_pc = "done" /\ t12_plain_text /\ t12_outcome = "rejected") =>
        /\ ~stage_output.structure_success
        /\ stage_output.errors # <<>>


(***************************************************************************)
(* C20: convert_rent_roll_arrays_to_objects drops every row of fewer than  *)
(* 4 positions and keeps every row of 4 or more positions as exactly one   *)
(* unit, in input order; in a kept row a missing or empty unit_size or     *)
(* rent becomes 0, a missing or empty status becomes "Occupied" and a      *)
(* missing lease_expiration becomes None.                                  *)
(***************************************************************************)
LongRows == SelectSeq(row_arrays, LAMBDA row : Len(row) >= 4)

MissingOrEmpty(row, i) == Len(row) < i \/ row[i] = PyNone \/ row[i] = ""

DefaultsApplied(row, u) ==
    /\ u.unit = row[1]
    /\ MissingOrEmpty(row, 3) => u.status = "Occupied"
    /\ MissingOrEmpty(row, 4) => u.unit_size = 0
    /\ MissingOrEmpty(row, 5) => u.rent = 0
    /\ (Len(row) < 6 \/ row[6] = PyNone) => u.lease_expiration = PyNone

C20_AsClaimed ==
    convert_pc \in {"returned", "raised"} =>
        /\ convert_pc = "returned"
        /\ Len(converted_units) = Len(LongRows)
        /\ \A k \in DOMAIN LongRows : DefaultsApplied(LongRows[k], converted_units[k])


(***************************************************************************)
(* C21: for every combination of present and absent source documents the   *)
(* pipeline skips the stage of each absent document, runs the stages of    *)
(* the present ones and completes without raising (deal updated, job       *)
(* succeeded); in particular a deal with a rent roll or T12 but no OM      *)
(* completes.  Stated for the runs in which no database call fails.        *)
(***************************************************************************)
PresentDocumentStages ==
    (IF has_om THEN {"om"} ELSE {})
    \cup (IF has_rr THEN {"rr"} ELSE {})
    \cup (IF has_t12 THEN {"t12"} ELSE {})

\* C21 as claimed: with no database fault the run ends with exactly the
\* stages of the present documents run, nothing raised, the deal draft and the
\* job succeeded, whichever documents are present.
C21_AsClaimed ==
    (job_pc = "done" /\ db_faults = {}) =>
        /\ stages_run \ {"structure"} = PresentDocumentStages
        /\ raised_at = "none"
        /\ deal_status = "draft"
        /\ job_status = "succeeded"


(***************************************************************************)
(* C22: in process_classification a failure of one description call nulls  *)
(* only that description: when the deal description fails the market       *)
(* description is still generated and returned, when the market            *)
(* description fails the deal description is intact, and the               *)
(* classification result is returned in both cases.                        *)
(***************************************************************************)
DescriptionsAttempted ==
    /\ "om" \in stages_run
    /\ om_llm.download_ok
    /\ om_llm.classification = "pages"

\* C22 as claimed: each description is returned exactly when its own call
\* succeeded, and the classification result is returned.
C22_AsClaimed ==
    DescriptionsAttempted =>
        /\ om_output.classification_result
        /\ om_output.description <=> (om_llm.deal = "ok")
        /\ om_output.market_description <=> (om_llm.market = "ok")

(***************************************************************************)
(* C27: the job status only moves queued -> running -> succeeded or        *)
(* failed, or queued -> failed; once succeeded or failed no later step     *)
(* changes it, whatever the pipeline and the status updates do.            *)
(***************************************************************************)
AllowedStatusMoves ==
    {<<"queued", "running">>, <<"running", "succeeded">>,
     <<"running", "failed">>, <<"queued", "failed">>}

\* C27 as claimed: every change of the job status is one of the allowed moves
\* (so succeeded and failed are final).
C27_AsClaimed ==
    [][job_status' # job_status => <<job_status, job_status'>> \in AllowedStatusMoves]_vars

(***************************************************************************)
(* C28: provided every stage returns and the status updates are applied,   *)
(* every job eventually is succeeded or failed; when the pipeline raised   *)
(* after the job was set to running the job ends failed, never running,    *)
(* and the deal is draft only when the job ends succeeded.                 *)
(***************************************************************************)
StatusUpdatesApplied == "status" \notin db_faults

RaisedWhileRunning == raised_at \notin {"none", "get_job", "set_running"}

\* C28: with the status updates applied, a finished task leaves the job
\* succeeded or failed, failed after a raise while running, the deal draft
\* only with the job succeeded, and every queued job leads to such an end.
C28_JobTerminates ==
    /\ [](StatusUpdatesApplied /\ job_pc = "done" /\ RaisedWhileRunning
            => job_status = "failed")
    /\ [](StatusUpdatesApplied /\ job_pc = "done" /\ deal_status = "draft"
            => job_status = "succeeded")
    /\ [](StatusUpdatesApplied /\ job_pc = "done"
            => job_status \in {"succeeded", "failed"})
    /\ (StatusUpdatesApplied /\ job_pc = "queued")
            ~> (job_pc = "done" /\ job_status \in {"succeeded", "failed"})

\* An OM is present and the deal update raised: the job was running and has
\* ended failed, the deal is not draft.
C28_Witness ==
    /\ StatusUpdatesApplied
    /\ job_pc = "done"
    /\ raised_at = "update_deal"
    /\ has_om
    /\ job_status = "failed"
    /\ deal_status = "pending"


(***************************************************************************)
(* C25: when the pass-2 response parses as JSON but lacks a required       *)
(* boundary key, the analysis behaves as for an unparseable pass-2         *)
(* response: it returns the pass-1 boundaries, not no classification.      *)
(***************************************************************************)
Pass2LacksRequiredKey ==
    /\ analysis_pc = "returned"
    /\ llm_calls = <<"detect", "validate">>
    /\ Pass2Parsed
    /\ ~json_loads(search_greedy(validate_response.text)).complete

\* C25 as claimed: a pass-2 object without a required boundary key makes the
\* analysis return the pass-1 boundaries.
C25_AsClaimed ==
    (Pass2LacksRequiredKey /\ first_result.complete) =>
        classification_result = Some(first_result)


(***************************************************************************)
(* C24: once validation passed and extraction returned at least one        *)
(* [line_item, amount] pair, every extracted pair is in the final output   *)
(* whatever the categorization step returns; with an empty or unparseable  *)
(* categorization response every item carries the category "Unknown".      *)
(***************************************************************************)
ExtractedPairs ==
    SelectSeq(parsed_list(extraction_response), LAMBDA item : Len(item) >= 2)

CategorizationAnswered ==
    /\ process_pc \in {"processed", "done"}
    /\ t12_llm_calls = T12CallOrder
    /\ ExtractedPairs # <<>>

\* C24 as claimed: after the categorization call every extracted pair is in
\* the successful output, with "Unknown" when categorization gave nothing.
C24_AsClaimed ==
    CategorizationAnswered =>
        /\ process_result.success
        /\ Len(process_result.structured_data) = Len(ExtractedPairs)
        /\ \A k \in DOMAIN ExtractedPairs :
               /\ process_result.structured_data[k][1] = ExtractedPairs[k][1]
               /\ process_result.structured_data[k][2] = ExtractedPairs[k][2]
               /\ parsed_list(labeling_response) = <<>> =>
                      process_result.structured_data[k][3] = "Unknown"


(***************************************************************************)
(* C23: for the re-chunking of a PDF precision extract, the chunks' pages  *)
(* lists concatenated in chunk order are the page numbers of the extract   *)
(* (start_page, start_page + 1, ...) exactly once each: no page number is  *)
(* in two chunks and a later chunk continues after the previous one.       *)
(***************************************************************************)
RRChunkPages == [i \in DOMAIN rr_chunks |-> rr_chunks[i].pages]

ExtractPageNumbers ==
    [i \in 1..Len(rr_relevant_data) |-> rr_start_page + (i - 1)]

\* C23 as claimed: the pages of the chunks, concatenated in chunk order, are
\* start_page, start_page + 1, ... once each.
C23_AsClaimed ==
    rr_chunk_pc = "returned" => Flatten(RRChunkPages) = ExtractPageNumbers


(***************************************************************************)
(* C26: for every PDF text with page markers and every pass-1 result with  *)
(* 1 <= data_start_page <= data_end_page <= page count, the start context  *)
(* contains the position where the claimed start page begins, the end      *)
(* context contains the position where the claimed end page ends, and each *)
(* context extends at most the configured number of context characters     *)
(* beyond its boundary on the inner side.                                  *)
(***************************************************************************)
ClaimedPagesExist ==
    /\ ctx_pc = "returned"
    /\ ctx_first_result.data_start_page <= ctx_first_result.data_end_page
    /\ ctx_first_result.data_end_page <= Len(ctx_page_lens)

\* C26 as claimed: the start context holds the begin of the claimed start
\* page, the end context holds the end of the claimed end page, and neither
\* reaches more than ContextChars past its boundary on the inner side.
C26_AsClaimed ==
    ClaimedPagesExist =>
        LET start_begins == page_marker_begin(ctx_page_lens, ctx_first_result.data_start_page)
            start_text   == page_text_begin(ctx_page_lens, ctx_first_result.data_start_page)
            end_ends     == page_end(ctx_page_lens, ctx_first_result.data_end_page)
        IN  /\ boundary_context.start_context.from <= start_begins
            /\ start_begins <= boundary_context.start_context.to
            /\ boundary_context.start_context.to <= start_text + ContextChars
            /\ boundary_context.end_context.from <= end_ends
            /\ end_ends <= boundary_context.end_context.to
            /\ end_ends - ContextChars <= boundary_context.end_context.from


(***************************************************************************)
(* C29: for any sequence or interleaving of deliveries the handler of a    *)
(* Stripe event id is executed at most once; every delivery of an event id *)
(* that is already recorded returns already_processed without routing the  *)
(* event to a handler again.                                               *)
(***************************************************************************)
C29_AsClaimed == \A e \in StripeEventIds : handler_runs[e] <= 1

(***************************************************************************)
(* C30: when process_webhook_event returns, the stored record of that      *)
(* Stripe event id is no longer pending: processed after the handler       *)
(* succeeded, failed with the error message after the handler raised.      *)
(***************************************************************************)
C30_AsClaimed ==
    \A d \in Deliveries :
        LET record == webhook_events[wh_event[d]]
            alone  == \A o \in Deliveries \ {d} : wh_event[o] # wh_event[d]
        IN  (wh_pc[d] = "returned" /\ alone) =>
                /\ wh_result[d] = "processed" => record.status = "processed"
                /\ wh_result[d] = "failed" =>
                       /\ record.status = "failed"
                       /\ record.error_message = "handler error"

====
